---- MODULE Spec2Model ----
(***************************************************************************)
(* Model of the BCSS product import: BCSSAPIIntegration                    *)
(* (src/bcss_api_integration.py) and ExcelAPITool (src/excel_api_tool.py). *)
(*                                                                         *)
(* Text.  Python strings that the code inspects character by character     *)
(* (lower, strip, substring tests, float parsing) are sequences of         *)
(* one-character tokens, <<"S","K","U">>.  The module text is ASCII, so a  *)
(* non-ASCII character of the source is written as one token:              *)
(*   "o^'" U+1ED1   "o'" U+00F3   "o^" U+00F4   "a('" U+1EAF               *)
(*   "o^." U+1ED9   "a'" U+00E1   "d-" U+0111   "i." U+1ECB                *)
(*   "inf" U+221E   "^2" U+00B2                                            *)
(* Dictionary keys that are only compared for equality (the BCSS field     *)
(* names of the mapping table) are plain strings, written without          *)
(* diacritics.                                                             *)
(*                                                                         *)
(* Values.  A Python scalar is a record [t, s, n]: t is the type ("nan",   *)
(* "none", "str", "int", "float"), s the text of a str, n the number of    *)
(* an int, or of a float in units of 1/FloatScale.                         *)
(***************************************************************************)
EXTENDS Integers, Sequences, FiniteSets, TLC

VARIABLES
    obj,            \* the class of the object the caller constructed
    mapping_data,   \* BCSSAPIIntegration.mapping_data, field -> [excel_mapping, notes]
    data,           \* ExcelAPITool.data: whether a table is loaded, and its rows
    column_mapping, \* ExcelAPITool.column_mapping, as the pairs of the dict in order
    mapping_set,    \* whether set_column_mapping has been called on the ExcelAPITool
    api_method,     \* process_all_rows: api_config.method
    pc,             \* "idle", "loop" (inside a batch loop) or "returned"
    op,             \* the method being called, or just returned from
    call_row,       \* the row given to transform_excel_row_to_api / create_single_product
    call_now,       \* what datetime.now() returned to that call
    call_args,      \* the arguments of a direct call of _process_mapping_value / send_to_api
    product_data,   \* process_excel_file: the rows of the product file
    dry_run,        \* the dry_run argument of the call
    start_row,      \* process_excel_file: the start_row argument
    index,          \* the number of rows the loop has passed
    results,        \* the result list of the batch loop
    http_log,       \* the HTTP requests issued by the call and their replies, in order
    transform_log,  \* the calls of transform_excel_row_to_api made by the call, in order
    ret             \* the value returned (or the exception raised) by the call

vars == <<obj, mapping_data, data, column_mapping, mapping_set, api_method, pc, op, call_row,
          call_now,
          call_args,
          product_data, dry_run, start_row, index, results, http_log, transform_log, ret>>

-----------------------------------------------------------------------------
(* Python scalars *)

FloatScale == 10

NaN == [t |-> "nan", s |-> <<>>, n |-> 0]

None == [t |-> "none", s |-> <<>>, n |-> 0]

StrV(s) == [t |-> "str", s |-> s, n |-> 0]

IntV(n) == [t |-> "int", s |-> <<>>, n |-> n]

FloatV(n) == [t |-> "float", s |-> <<>>, n |-> n]

\* pd.isna / pd.notna on a scalar
isna(v) == v.t \in {"nan", "none"}

notna(v) == ~isna(v)

\* bool(v): None, "", 0 and 0.0 are falsy; NaN is a non-zero float, so truthy
Truthy(v) ==
    CASE v.t = "none" -> FALSE
      [] v.t = "nan" -> TRUE
      [] v.t = "str" -> v.s # <<>>
      [] OTHER -> v.n # 0

-----------------------------------------------------------------------------
(* str methods *)

\* the characters of an ASCII string literal
Chars(str) == [i \in 1..Len(str) |-> SubSeq(str, i, i)]

UpperLetters ==
    <<"A", "B", "C", "D", "E", "F", "G", "H", "I", "J", "K", "L", "M",
      "N", "O", "P", "Q", "R", "S", "T", "U", "V", "W", "X", "Y", "Z">>

LowerLetters ==
    <<"a", "b", "c", "d", "e", "f", "g", "h", "i", "j", "k", "l", "m",
      "n", "o", "p", "q", "r", "s", "t", "u", "v", "w", "x", "y", "z">>

Digits == <<"0", "1", "2", "3", "4", "5", "6", "7", "8", "9">>

ToLower == [c \in {UpperLetters[i] : i \in 1..26} |->
               LowerLetters[CHOOSE i \in 1..26 : UpperLetters[i] = c]]

ToUpper == [c \in {LowerLetters[i] : i \in 1..26} |->
               UpperLetters[CHOOSE i \in 1..26 : LowerLetters[i] = c]]

DigitValue == [c \in {Digits[i] : i \in 1..10} |-> (CHOOSE i \in 1..10 : Digits[i] = c) - 1]

LowerChar(c) == IF c \in DOMAIN ToLower THEN ToLower[c] ELSE c

UpperChar(c) == IF c \in DOMAIN ToUpper THEN ToUpper[c] ELSE c

\* s.lower()
Lower(s) == [i \in 1..Len(s) |-> LowerChar(s[i])]

\* s.upper()
Upper(s) == [i \in 1..Len(s) |-> UpperChar(s[i])]

IsSpace(c) == c \in {" ", "\t", "\n"}

RECURSIVE LStrip(_)
LStrip(s) == IF s # <<>> /\ IsSpace(Head(s)) THEN LStrip(Tail(s)) ELSE s

RECURSIVE RStrip(_)
RStrip(s) ==
    IF s # <<>> /\ IsSpace(s[Len(s)]) THEN RStrip(SubSeq(s, 1, Len(s) - 1)) ELSE s

\* s.strip()
Strip(s) == RStrip(LStrip(s))

\* sub in s
Contains(s, sub) ==
    \E i \in 0..(Len(s) - Len(sub)) : SubSeq(s, i + 1, i + Len(sub)) = sub

\* s.replace(old, new), old non-empty: leftmost non-overlapping occurrences
RECURSIVE Replace(_, _, _)
Replace(s, old, new) ==
    IF Len(s) < Len(old) THEN s
    ELSE IF SubSeq(s, 1, Len(old)) = old
         THEN new \o Replace(SubSeq(s, Len(old) + 1, Len(s)), old, new)
         ELSE <<Head(s)>> \o Replace(Tail(s), old, new)

IsAsciiDigit(c) == c \in DOMAIN DigitValue

DigitVal(c) == DigitValue[c]

\* s.isdigit(): true of the ASCII digits and also of digit-like characters
\* such as a superscript two
IsDigit(s) == s # <<>> /\ \A i \in DOMAIN s : IsAsciiDigit(s[i]) \/ s[i] = "^2"

RECURSIVE NatToStr(_)
NatToStr(n) ==
    IF n < 10 THEN <<Digits[n + 1]>> ELSE NatToStr(n \div 10) \o <<Digits[(n % 10) + 1]>>

IntToStr(n) == IF n < 0 THEN <<"-">> \o NatToStr(0 - n) ELSE NatToStr(n)

RECURSIVE DigitsToNat(_)
DigitsToNat(s) ==
    IF s = <<>> THEN 0 ELSE 10 * DigitsToNat(SubSeq(s, 1, Len(s) - 1)) + DigitVal(s[Len(s)])

AllAsciiDigits(s) == \A i \in DOMAIN s : IsAsciiDigit(s[i])

\* str(v)
PyStr(v) ==
    CASE v.t = "none" -> Chars("None")
      [] v.t = "nan" -> Chars("nan")
      [] v.t = "str" -> v.s
      [] v.t = "int" -> IntToStr(v.n)
      [] v.t = "float" ->
           LET a == IF v.n < 0 THEN 0 - v.n ELSE v.n
           IN  (IF v.n < 0 THEN <<"-">> ELSE <<>>)
               \o NatToStr(a \div FloatScale) \o <<".">> \o NatToStr(a % FloatScale)

\* the unsigned decimal literals float() accepts here: digits, digits '.',
\* digits '.' digit, '.' digit (one fractional digit is what FloatScale holds)
DotAt(s) == CHOOSE i \in DOMAIN s : s[i] = "."

IsDecimal(s) ==
    IF \E i \in DOMAIN s : s[i] = "."
    THEN LET ip == SubSeq(s, 1, DotAt(s) - 1)
             fp == SubSeq(s, DotAt(s) + 1, Len(s))
         IN  /\ AllAsciiDigits(ip) /\ AllAsciiDigits(fp)
             /\ Len(ip) + Len(fp) > 0
             /\ Len(fp) <= 1
    ELSE s # <<>> /\ AllAsciiDigits(s)

DecimalValue(s) ==
    IF \E i \in DOMAIN s : s[i] = "."
    THEN LET ip == SubSeq(s, 1, DotAt(s) - 1)
             fp == SubSeq(s, DotAt(s) + 1, Len(s))
         IN  DigitsToNat(ip) * FloatScale + DigitsToNat(fp)
    ELSE DigitsToNat(s) * FloatScale

\* float(v): [ok |-> TRUE, val |-> a float or NaN], or ok = FALSE when
\* float() raises ValueError (unparseable text) or TypeError (None)
PyFloat(v) ==
    CASE v.t = "none" -> [ok |-> FALSE, val |-> None]
      [] v.t = "nan" -> [ok |-> TRUE, val |-> NaN]
      [] v.t = "int" -> [ok |-> TRUE, val |-> FloatV(v.n * FloatScale)]
      [] v.t = "float" -> [ok |-> TRUE, val |-> v]
      [] v.t = "str" ->
           LET w == Strip(v.s)
               neg == w # <<>> /\ Head(w) = "-"
               u == IF w # <<>> /\ Head(w) \in {"-", "+"} THEN Tail(w) ELSE w
           IN  IF Lower(u) = Chars("nan") THEN [ok |-> TRUE, val |-> NaN]
               ELSE IF IsDecimal(u)
                    THEN [ok |-> TRUE,
                          val |-> FloatV(IF neg THEN 0 - DecimalValue(u) ELSE DecimalValue(u))]
                    ELSE [ok |-> FALSE, val |-> None]

\* int(f) of a float: truncation toward zero; int(nan) raises ValueError
PyIntOfFloat(f) ==
    IF f.t = "nan" THEN [ok |-> FALSE, val |-> None]
    ELSE [ok |-> TRUE,
          val |-> IntV(IF f.n < 0 THEN 0 - ((0 - f.n) \div FloatScale) ELSE f.n \div FloatScale)]

-----------------------------------------------------------------------------
(* Rows: a pandas Series as the ordered sequence of its [col, val] cells;  *)
(* column names are strings and are distinct                               *)

\* excel_col in excel_row.index (an int or float is never a column name)
InIndex(row, excel_col) ==
    excel_col.t = "str" /\ \E i \in DOMAIN row : row[i].col = excel_col.s

\* excel_row[excel_col]
Cell(row, excel_col) ==
    row[CHOOSE i \in DOMAIN row : row[i].col = excel_col.s].val

-----------------------------------------------------------------------------
(* BCSSAPIIntegration: tables *)

_get_default_api_payload ==
    [productCode |-> StrV(<<>>),
     productName |-> StrV(<<>>),
     parentId |-> 561,
     productUom |-> "01",
     weight |-> None,
     checkQuantity |-> 1,
     checkSerial |-> 1,
     productStatus |-> 1,
     productDescription |-> "",
     productCategoryId |-> 101,
     productPriceDTOS |-> <<[price |-> IntV(0), fromDate |-> None, toDate |-> None, id |-> None]>>,
     productVatDTOS |-> <<[price |-> IntV(10), fromDate |-> None, toDate |-> None, id |-> None]>>,
     attributeValueList |-> <<>>,
     productDescriptionEn |-> "",
     id |-> None,
     productType |-> 1]

\* BCSS field -> productCategoryAttributeId, in dictionary order
_get_attribute_mapping ==
    << <<"Dung luong toc do cao", 101>>,
       <<"Loai goi", 102>>,
       <<"eKYC (Xac minh danh tinh)", 103>>,
       <<"Het toc do cao giam xuong", 104>>,
       <<"Chia se Wifi", 105>>,
       <<"Loai SIM", 106>>,
       <<"Pham vi phu song", 107>>,
       <<"SKUID", 108>>,
       <<"So ngay su dung", 109>>,
       <<"Nha cung cap", 110>> >>

\* the entries of _get_national_area_mapping, in the order of the source
NationalAreaTable ==
    <<
      <<Chars("Thailand"), 21>>,
      <<Chars("Japan"), 27>>,
      <<Chars("Taiwan"), 32>>,
      <<Chars("Vietnam"), 35>>,
      <<Chars("Netherlands"), 49>>,
      <<Chars("Belgium"), 50>>,
      <<Chars("Spain"), 52>>,
      <<Chars("Estonia"), 67>>,
      <<Chars("Asia 10 countries"), 98>>,
      <<Chars("USA, Canada"), 115>>,
      <<Chars("Madagascar"), 125>>,
      <<Chars("Brazil"), 22>>,
      <<Chars("Egypt"), 24>>,
      <<Chars("India"), 25>>,
      <<Chars("Philippines"), 31>>,
      <<Chars("UAE"), 33>>,
      <<Chars("USA"), 34>>,
      <<Chars("HongKong"), 36>>,
      <<Chars("Malaysia"), 38>>,
      <<Chars("Singapore"), 39>>,
      <<Chars("Sri Lanka"), 43>>,
      <<Chars("Uzbekistan"), 44>>,
      <<Chars("Greece"), 48>>,
      <<Chars("France"), 51>>,
      <<Chars("Hungary"), 53>>,
      <<Chars("Croatia"), 54>>,
      <<Chars("Italy"), 55>>,
      <<Chars("Switzerland"), 57>>,
      <<Chars("Czech"), 58>>,
      <<Chars("United Kingdom"), 60>>,
      <<Chars("Norway"), 63>>,
      <<Chars("Portugal"), 70>>,
      <<Chars("Luxembourg"), 71>>,
      <<Chars("Republic of Ireland"), 72>>,
      <<Chars("Iceland"), 73>>,
      <<Chars("Turkey"), 77>>,
      <<Chars("Liechtenstein"), 79>>,
      <<Chars("Kuwait"), 81>>,
      <<Chars("Kazakhstan"), 84>>,
      <<Chars("Nicaragua"), 87>>,
      <<Chars("Peru"), 89>>,
      <<Chars("Argentina"), 90>>,
      <<Chars("Chile"), 91>>,
      <<Chars("Columbia"), 92>>,
      <<Chars("Ecuador"), 93>>,
      <<Chars("French Guiana"), 94>>,
      <<Chars("Mexico"), 96>>,
      <<Chars("Canada"), 97>>,
      <<Chars("Asia 19 countries"), 100>>,
      <<Chars("China Mainland, Macao"), 105>>,
      <<Chars("Singapore, Malaysia, Thailand"), 113>>,
      <<Chars("South America 11 countries"), 161>>,
      <<Chars("Denmark"), 61>>,
      <<Chars("Lithuania"), 65>>,
      <<Chars("Latvia"), 66>>,
      <<Chars("Australia, New Zealand"), 102>>,
      <<Chars("Brazil, Chile"), 103>>,
      <<Chars("China Mainland, Hong Kong, Macao"), 104>>,
      <<Chars("Europe 33 Countries"), 106>>,
      <<Chars("Austria"), 107>>,
      <<Chars("Indonesia, Singapore, Malaysia, Thailand"), 109>>,
      <<Chars("Jordan, Kuwait, Oman"), 110>>,
      <<Chars("Singapore, Malaysia, Indonesia"), 112>>,
      <<Chars("World Primary 70 Countries"), 117>>,
      <<Chars("Saudi Arabia"), 118>>,
      <<Chars("Qatar"), 119>>,
      <<Chars("New Zealand"), 120>>,
      <<Chars("Morocco"), 121>>,
      <<Chars("Tunisia"), 122>>,
      <<Chars("Seychelles"), 123>>,
      <<Chars("Kenya"), 124>>,
      <<Chars("South Africa"), 126>>,
      <<Chars("Costa Rica"), 127>>,
      <<Chars("Macau"), 37>>,
      <<Chars("Cambodia"), 40>>,
      <<Chars("Mongolia"), 30>>,
      <<Chars("New Zealnd"), 47>>,
      <<Chars("Slovakia"), 59>>,
      <<Chars("Poland"), 68>>,
      <<Chars("Malta"), 74>>,
      <<Chars("Cyprus"), 75>>,
      <<Chars("Jordan"), 80>>,
      <<Chars("Russia"), 83>>,
      <<Chars("Asia 14 countries"), 99>>,
      <<Chars("China Mainland"), 23>>,
      <<Chars("Israel"), 26>>,
      <<Chars("Korea"), 28>>,
      <<Chars("Laos"), 29>>,
      <<Chars("Indonesia"), 41>>,
      <<Chars("Pakistan"), 42>>,
      <<Chars("Kyrgyzstan"), 45>>,
      <<Chars("Australia"), 46>>,
      <<Chars("Romania"), 56>>,
      <<Chars("Sweden"), 62>>,
      <<Chars("Finland"), 64>>,
      <<Chars("Germany"), 69>>,
      <<Chars("Bulgari"), 76>>,
      <<Chars("Slovenia"), 78>>,
      <<Chars("Oman"), 82>>,
      <<Chars("Martinique Island"), 85>>,
      <<Chars("El Salvado"), 86>>,
      <<Chars("Panama"), 88>>,
      <<Chars("Uruguay"), 95>>,
      <<Chars("Asia 6 countries"), 101>>,
      <<Chars("Hong Kong, Macao"), 108>>,
      <<Chars("Russia, Kazakhstan, Uzbekistan, Pakistan"), 111>>,
      <<Chars("South America 12 countries"), 114>>,
      <<Chars("USA, Mexico"), 116>>
    >>

_get_national_area_mapping ==
    [name \in {NationalAreaTable[i][1] : i \in DOMAIN NationalAreaTable} |->
        NationalAreaTable[CHOOSE i \in DOMAIN NationalAreaTable :
                             NationalAreaTable[i][1] = name][2]]

\* national_area_map.get(area, area)
NationalAreaGet(area) ==
    IF area \in DOMAIN _get_national_area_mapping
    THEN IntV(_get_national_area_mapping[area])
    ELSE StrV(area)

-----------------------------------------------------------------------------
(* Outcomes of a call: a value, or the exception it raised and the step    *)
(* of the code that raised it                                              *)

Returned(v) == [raised |-> FALSE, exc |-> "", at |-> "", val |-> v]

Raised(e, where) == [raised |-> TRUE, exc |-> e, at |-> where, val |-> None]

-----------------------------------------------------------------------------
(* BCSSAPIIntegration._process_mapping_value *)

\* the literals of the business rules that hold non-ASCII characters
Trong == Chars("Tr") \o <<"o^'">> \o Chars("ng")

Co == <<"c", "o'">>

Yes == Chars("yes")

SupportEqCo == Chars("support = ") \o Co

KhongBatBuoc == Chars("Kh") \o <<"o^">> \o Chars("ng b") \o <<"a('">> \o Chars("t bu") \o <<"o^.">> \o Chars("c")

TextCoDinh == Chars("Text c") \o <<"o^'">> \o <<" ", "d-", "i.">> \o Chars("nh")

Cai == <<"C", "a'", "i">>

SimOutbound == Chars("SIM outbound")

Infinity == <<"inf">>

Support == Chars("support")

\* a variant of SupportLogic that applies the note-driven rule first
SupportLogicNoteFirst(mapping_value, mapping_str, notes) ==
    IF Truthy(notes) /\ notes.t = "str" /\ Contains(Lower(notes.s), SupportEqCo)
    THEN Returned(StrV(IF mapping_str = Co \/ mapping_str = Yes THEN <<"1">> ELSE <<"0">>))
    ELSE IF Contains(mapping_str, Support) THEN Returned(StrV(<<"1">>))
    ELSE IF Contains(mapping_str, Lower(KhongBatBuoc)) THEN Returned(StrV(<<"0">>))
    ELSE Returned(mapping_value)

\* the branch for a str value; mapping_str is mapping_value.lower().strip()
SupportLogic(mapping_value, mapping_str, notes) ==
    IF Contains(mapping_str, Support) THEN Returned(StrV(<<"1">>))
    ELSE IF Truthy(notes) /\ notes.t # "str"
    \* notes.lower() on a float (the NaN of an empty note cell) or an int
    THEN Raised("AttributeError", "_process_mapping_value")
    ELSE IF Truthy(notes) /\ Contains(Lower(notes.s), SupportEqCo)
    THEN Returned(StrV(IF mapping_str = Co \/ mapping_str = Yes THEN <<"1">> ELSE <<"0">>))
    ELSE IF Contains(mapping_str, Lower(KhongBatBuoc)) THEN Returned(StrV(<<"0">>))
    ELSE Returned(mapping_value)

_process_mapping_value(mapping_value, notes) ==
    IF isna(mapping_value) \/ mapping_value = StrV(Trong) \/ mapping_value = StrV(<<>>)
    THEN Returned(None)
    ELSE IF mapping_value.t = "str"
    THEN SupportLogic(mapping_value, Strip(Lower(mapping_value.s)), notes)
    ELSE Returned(StrV(PyStr(mapping_value)))

-----------------------------------------------------------------------------
(* BCSSAPIIntegration.transform_excel_row_to_api *)

\* payload[k] = v, adding the key when the payload has none
SetKey(payload, k, v) ==
    [x \in (DOMAIN payload) \cup {k} |-> IF x = k THEN v ELSE payload[x]]

\* del payload[k]
DelKey(payload, k) == [x \in (DOMAIN payload) \ {k} |-> payload[x]]

field_mappings ==
    << <<"Ma san pham", "productCode">>,
       <<"Ten san pham", "productName">>,
       <<"SKY package code", "pckCode">> >>

\* whether the i-th simple field has an entry whose column is in the row
FieldHasCell(md, excel_row, i) ==
    /\ field_mappings[i][1] \in DOMAIN md
    /\ notna(md[field_mappings[i][1]].excel_mapping)
    /\ InIndex(excel_row, md[field_mappings[i][1]].excel_mapping)

\* "if value is not None: payload[api_field] = value"
AssignField(payload, api_field, value) ==
    IF value # None THEN SetKey(payload, api_field, value) ELSE payload

\* the loop over field_mappings, from its i-th entry on; FieldStep is the
\* rest of the loop once the i-th cell is normalised to `value`
RECURSIVE ApplyFieldMappings(_, _, _, _)
RECURSIVE FieldStep(_, _, _, _, _)
FieldStep(md, excel_row, payload, i, value) ==
    IF value.raised THEN Raised(value.exc, field_mappings[i][1])
    ELSE ApplyFieldMappings(md, excel_row,
                            AssignField(payload, field_mappings[i][2], value.val), i + 1)

ApplyFieldMappings(md, excel_row, payload, i) ==
    IF i > Len(field_mappings) THEN Returned(payload)
    ELSE IF FieldHasCell(md, excel_row, i)
    THEN FieldStep(md, excel_row, payload, i,
                   _process_mapping_value(
                       Cell(excel_row, md[field_mappings[i][1]].excel_mapping),
                       md[field_mappings[i][1]].notes))
    ELSE ApplyFieldMappings(md, excel_row, payload, i + 1)

ProductDescription == "Thoi gian su dung la so ngay ke tu ngay kich hoat"

ProductDescriptionEn == "The usage period is the number of days from the activation date."

\* a variant of FloatOr whose except branch always assigns 0
FloatOrZero(f, fallback) == IF f.ok THEN f.val ELSE IntV(0)

\* "payload[...][0]['price'] = float(value)", with the except branch
FloatOr(f, fallback) == IF f.ok THEN f.val ELSE IntV(fallback)

\* whether the price / VAT field has an entry, its column is in the row and
\* the cell is not null
HasAmountCell(md, excel_row, bcss_field) ==
    /\ bcss_field \in DOMAIN md
    /\ notna(md[bcss_field].excel_mapping)
    /\ InIndex(excel_row, md[bcss_field].excel_mapping)
    /\ notna(Cell(excel_row, md[bcss_field].excel_mapping))

\* the amount of the price / VAT entry after "Handle price mapping" /
\* "Handle VAT mapping"; `template` is the amount of the default payload
Amount(md, excel_row, bcss_field, template, fallback) ==
    IF HasAmountCell(md, excel_row, bcss_field)
    THEN FloatOr(PyFloat(Cell(excel_row, md[bcss_field].excel_mapping)), fallback)
    ELSE template

\* a variant of HandlePriceAndVat that appends a new price entry where the
\* code updates the one the template has
HandlePriceAndVatAppending(md, excel_row, payload) ==
    [payload EXCEPT
        !.productPriceDTOS =
            Append(@, [price |-> Amount(md, excel_row, "Gia hang hoa", IntV(0), 0),
                       fromDate |-> None, toDate |-> None, id |-> None]),
        !.productVatDTOS[1].price =
            Amount(md, excel_row, "VAT", payload.productVatDTOS[1].price, 10)]

HandlePriceAndVat(md, excel_row, payload) ==
    [payload EXCEPT
        !.productPriceDTOS[1].price =
            Amount(md, excel_row, "Gia hang hoa", payload.productPriceDTOS[1].price, 0),
        !.productVatDTOS[1].price =
            Amount(md, excel_row, "VAT", payload.productVatDTOS[1].price, 10)]

Min(S) == CHOOSE x \in S : \A y \in S : x <= y

Max(S) == CHOOSE x \in S : \A y \in S : y <= x

\* whether the "similar name" test holds of a column name; both are lowered
IsSimilar(col, excel_col) == Contains(col, excel_col) \/ Contains(excel_col, col)

\* the columns the "similar name" scan matches, as positions in the row
SimilarColumns(excel_row, excel_col) ==
    {i \in DOMAIN excel_row : IsSimilar(Lower(excel_row[i].col), Lower(excel_col.s))}

\* "attribute_value = '1' if 'support' in value else '0'"
Hotspot(excel_row, excel_col) ==
    IF InIndex(excel_row, excel_col)
       /\ Contains(Lower(PyStr(Cell(excel_row, excel_col))), Support)
    THEN StrV(<<"1">>) ELSE StrV(<<"0">>)

\* "attribute_value = national_area_map.get(area, area)"
NationalArea(excel_row, excel_col) ==
    IF InIndex(excel_row, excel_col)
    THEN NationalAreaGet(PyStr(Cell(excel_row, excel_col)))
    ELSE StrV(<<>>)

\* the "Text co dinh" rule has a cell to take: present, not null, not blank
HasFixedTextCell(excel_row, excel_col) ==
    /\ InIndex(excel_row, excel_col)
    /\ notna(Cell(excel_row, excel_col))
    /\ Strip(PyStr(Cell(excel_row, excel_col))) # <<>>

\* a variant of AttributeRule that looks the column up before it reads the
\* note
AttributeRuleColumnFirst(excel_row, bcss_field, excel_col, notes) ==
    IF bcss_field = "Chia se Wifi" THEN "hotspot"
    ELSE IF bcss_field = "Pham vi phu song" THEN "area"
    ELSE IF excel_col = StrV(KhongBatBuoc) THEN "zero"
    ELSE IF excel_col = StrV(SimOutbound) \/ excel_col = StrV(Cai) THEN "literal"
    ELSE IF InIndex(excel_row, excel_col) THEN "column"
    ELSE IF Contains(PyStr(notes), TextCoDinh) THEN "fixed_text"
    ELSE IF excel_row = <<>> THEN "no_column"
    ELSE IF excel_col.t # "str" THEN "lower_of_number"
    ELSE IF SimilarColumns(excel_row, excel_col) = {} THEN "no_column"
    ELSE "similar"

\* the rule that decides the raw value of a slot whose source column
\* excel_col is not null, in the order of the if / elif chain
AttributeRule(excel_row, bcss_field, excel_col, notes) ==
    IF bcss_field = "Chia se Wifi" THEN "hotspot"
    ELSE IF bcss_field = "Pham vi phu song" THEN "area"
    ELSE IF excel_col = StrV(KhongBatBuoc) THEN "zero"
    ELSE IF excel_col = StrV(SimOutbound) \/ excel_col = StrV(Cai) THEN "literal"
    ELSE IF Contains(PyStr(notes), TextCoDinh)
    THEN (IF HasFixedTextCell(excel_row, excel_col) THEN "fixed_cell" ELSE "fixed_text")
    ELSE IF InIndex(excel_row, excel_col) THEN "column"
    ELSE IF excel_row = <<>> THEN "no_column"
    \* excel_col.lower() on a number, at the first column scanned
    ELSE IF excel_col.t # "str" THEN "lower_of_number"
    ELSE IF SimilarColumns(excel_row, excel_col) = {} THEN "no_column"
    ELSE "similar"

\* the cell the rule normalises
RuleCell(excel_row, excel_col, rule) ==
    IF rule = "similar" THEN excel_row[Min(SimilarColumns(excel_row, excel_col))].val
    ELSE Cell(excel_row, excel_col)

\* the raw value after _process_mapping_value returned (or raised) `value`:
\* the "Text co dinh" rule assigns it as it is, the other two rules keep ''
\* when it is None
Normalised(bcss_field, rule, value) ==
    IF value.raised THEN Raised(value.exc, bcss_field)
    ELSE IF rule # "fixed_cell" /\ value.val = None THEN Returned(StrV(<<>>))
    ELSE value

ByRule(excel_row, bcss_field, excel_col, notes, rule) ==
    CASE rule = "hotspot" -> Returned(Hotspot(excel_row, excel_col))
      [] rule = "area" -> Returned(NationalArea(excel_row, excel_col))
      [] rule = "zero" -> Returned(StrV(<<"0">>))
      [] rule \in {"literal", "fixed_text"} -> Returned(excel_col)
      [] rule = "no_column" -> Returned(StrV(<<>>))
      [] rule = "lower_of_number" -> Raised("AttributeError", bcss_field)
      [] OTHER -> Normalised(bcss_field, rule,
                             _process_mapping_value(RuleCell(excel_row, excel_col, rule), notes))

\* the raw attribute value of one slot, before post-processing
ResolveAttribute(md, excel_row, bcss_field) ==
    IF isna(md[bcss_field].excel_mapping) THEN Returned(StrV(<<>>))
    ELSE ByRule(excel_row, bcss_field, md[bcss_field].excel_mapping, md[bcss_field].notes,
                AttributeRule(excel_row, bcss_field, md[bcss_field].excel_mapping,
                              md[bcss_field].notes))

Kbps == Chars(" Kbps")

Mbps == Chars(" Mbps")

\* f"{int(float(attribute_value))} Kbps", f being float(attribute_value)
NumberKbps(bcss_field, f) ==
    IF ~f.ok \/ f.val.t = "nan" THEN Raised("ValueError", bcss_field)
    ELSE Returned(StrV(IntToStr(PyIntOfFloat(f.val).val.n) \o Kbps))

\* the str branch; val is attribute_value.replace(' ', '').lower()
SpeedUnit(attribute_value, val) ==
    IF val = Chars("1mbps") THEN StrV(Chars("1 Mbps"))
    ELSE IF Contains(val, Chars("mbps"))
    THEN StrV(Replace(Replace(attribute_value.s, Chars("Mbps"), Mbps), Chars("mbps"), Mbps))
    ELSE IF Contains(val, Chars("kbps"))
    THEN StrV(Replace(Replace(attribute_value.s, Chars("Kbps"), Kbps), Chars("kbps"), Kbps))
    ELSE attribute_value

\* productCategoryAttributeId 104: number, Mbps, infinity, -1
PostProcess104(bcss_field, attribute_value) ==
    IF attribute_value \in {StrV(Infinity), StrV(Chars("-1"))} THEN Returned(None)
    ELSE IF \/ attribute_value.t \in {"int", "float", "nan"}
            \/ (attribute_value.t = "str" /\ IsDigit(attribute_value.s))
    THEN NumberKbps(bcss_field, PyFloat(attribute_value))
    ELSE IF attribute_value.t = "str"
    THEN Returned(SpeedUnit(attribute_value, Lower(Replace(attribute_value.s, <<" ">>, <<>>))))
    ELSE Returned(attribute_value)

\* a variant of SimType that compares the value as it is written
SimTypeAsWritten(attribute_value, s) ==
    IF attribute_value = StrV(Chars("esim")) THEN StrV(<<"2">>)
    ELSE IF attribute_value = StrV(Chars("sim card")) THEN StrV(<<"1">>)
    ELSE attribute_value

\* productCategoryAttributeId 106: 'eSIM' -> 2, 'Sim Card' -> 1; s is
\* str(attribute_value).strip().lower()
SimType(attribute_value, s) ==
    IF s = Chars("esim") THEN StrV(<<"2">>)
    ELSE IF s = Chars("sim card") THEN StrV(<<"1">>)
    ELSE attribute_value

PostProcess106(attribute_value) ==
    SimType(attribute_value, Lower(Strip(PyStr(attribute_value))))

\* int(float(v)), or None when either conversion raises
IntOrNone(f) ==
    IF ~f.ok \/ f.val.t = "nan" THEN None ELSE PyIntOfFloat(f.val).val

\* a variant of StrippedInt that keeps a text it cannot convert
StrippedIntOrText(v) ==
    IF v = StrV(<<>>) \/ v = None THEN None
    ELSE IF PyFloat(v).ok THEN IntOrNone(PyFloat(v))
    ELSE v

\* productCategoryAttributeId 107 and 109: an integer if possible, else
\* None; v is the value after the strip
StrippedInt(v) ==
    IF v = StrV(<<>>) \/ v = None THEN None ELSE IntOrNone(PyFloat(v))

PostProcessInt(attribute_value) ==
    StrippedInt(IF attribute_value.t = "str" THEN StrV(Strip(attribute_value.s))
                ELSE attribute_value)

\* productCategoryAttributeId 101: infinity -> None
PostProcess101(attribute_value) ==
    IF Strip(PyStr(attribute_value)) = Infinity THEN None ELSE attribute_value

PostProcess(bcss_field, id, attribute_value) ==
    IF id = 104 THEN PostProcess104(bcss_field, attribute_value)
    ELSE IF id = 106 THEN Returned(PostProcess106(attribute_value))
    ELSE IF id \in {107, 109} THEN Returned(PostProcessInt(attribute_value))
    ELSE IF id = 101 THEN Returned(PostProcess101(attribute_value))
    ELSE Returned(attribute_value)

\* a variant of AttributeEntry that numbers the entry with its type id
AttributeEntryNumbered(id, attribute_value) ==
    [id |-> IntV(id),
     productCategoryAttributeId |-> id,
     productCategoryAttributeValueId |-> "",
     attributeValue |-> attribute_value]

AttributeEntry(id, attribute_value) ==
    [id |-> None,
     productCategoryAttributeId |-> id,
     productCategoryAttributeValueId |-> "",
     attributeValue |-> attribute_value]

\* the loop over the attribute slots, from the i-th slot on; AfterResolve
\* and AfterPostProcess are the rest of the loop once the i-th slot has its
\* raw and its final value
RECURSIVE BuildAttributeList(_, _, _, _)
RECURSIVE AfterResolve(_, _, _, _, _)
RECURSIVE AfterPostProcess(_, _, _, _, _)
AfterPostProcess(md, excel_row, attribute_list, i, final) ==
    IF final.raised THEN final
    ELSE BuildAttributeList(md, excel_row,
                            Append(attribute_list,
                                   AttributeEntry(_get_attribute_mapping[i][2], final.val)),
                            i + 1)

AfterResolve(md, excel_row, attribute_list, i, raw) ==
    IF raw.raised THEN raw
    ELSE AfterPostProcess(md, excel_row, attribute_list, i,
                          PostProcess(_get_attribute_mapping[i][1],
                                      _get_attribute_mapping[i][2], raw.val))

BuildAttributeList(md, excel_row, attribute_list, i) ==
    IF i > Len(_get_attribute_mapping) THEN Returned(attribute_list)
    ELSE IF _get_attribute_mapping[i][1] \notin DOMAIN md
    THEN BuildAttributeList(md, excel_row, attribute_list, i + 1)
    ELSE AfterResolve(md, excel_row, attribute_list, i,
                      ResolveAttribute(md, excel_row, _get_attribute_mapping[i][1]))

Skuid == Chars("SKUID")

Days == Chars("days")

IsSkuidColumn(col) == Contains(Upper(col), Skuid)

IsDaysColumn(col) == Lower(Strip(col)) = Days

\* the positions of the non-null cells of the columns that pass the test
SkuidCells(excel_row) ==
    {i \in DOMAIN excel_row : IsSkuidColumn(excel_row[i].col) /\ notna(excel_row[i].val)}

DaysCells(excel_row) ==
    {i \in DOMAIN excel_row : IsDaysColumn(excel_row[i].col) /\ notna(excel_row[i].val)}

\* the value the scan is left with: str of the last such cell, '' if none
LastValue(excel_row, hits) ==
    IF hits = {} THEN <<>> ELSE PyStr(excel_row[Max(hits)].val)

RECURSIVE ZeroPad(_, _)
ZeroPad(s, width) == IF Len(s) >= width THEN s ELSE ZeroPad(<<"0">> \o s, width)

\* now.strftime('%Y%m%d%H%M%S')
Strftime(now) ==
    ZeroPad(NatToStr(now.year), 4) \o ZeroPad(NatToStr(now.month), 2)
    \o ZeroPad(NatToStr(now.day), 2) \o ZeroPad(NatToStr(now.hour), 2)
    \o ZeroPad(NatToStr(now.minute), 2) \o ZeroPad(NatToStr(now.second), 2)

\* the three cases of "Generate product code as SKUID-Days"
ProductCode(skuid_value, days_value, now) ==
    IF skuid_value # <<>> /\ days_value # <<>> THEN skuid_value \o <<"-">> \o days_value
    ELSE IF skuid_value # <<>> THEN skuid_value
    ELSE Chars("SIM-") \o Strftime(now)

GenerateProductCode(excel_row, now) ==
    ProductCode(LastValue(excel_row, SkuidCells(excel_row)),
                LastValue(excel_row, DaysCells(excel_row)), now)

\* the payload after the fixed descriptions, the removal of weight, the
\* price and the VAT
Described(md, excel_row, payload) ==
    HandlePriceAndVat(md, excel_row,
                      DelKey([payload EXCEPT !.productDescription = ProductDescription,
                                             !.productDescriptionEn = ProductDescriptionEn],
                             "weight"))

\* the end of the transform, the attribute loop having ended with `attrs`
WithAttributes(payload, attrs, product_code) ==
    IF attrs.raised THEN attrs
    ELSE Returned([payload EXCEPT !.attributeValueList = attrs.val,
                                  !.productCode = StrV(product_code)])

\* the transform after the simple fields ended with `basic`
AfterFieldMappings(md, excel_row, now, basic) ==
    IF basic.raised THEN basic
    ELSE WithAttributes(Described(md, excel_row, basic.val),
                        BuildAttributeList(md, excel_row, <<>>, 1),
                        GenerateProductCode(excel_row, now))

\* the whole transform: the payload, or the exception that escapes it
transform_excel_row_to_api(md, excel_row, now) ==
    AfterFieldMappings(md, excel_row, now,
                       ApplyFieldMappings(md, excel_row, _get_default_api_payload, 1))

-----------------------------------------------------------------------------
(* BCSSAPIIntegration.load_excel_mapping *)

\* the mapping dictionary built from the rows of the mapping sheet: rows
\* without a BCSS field are dropped, a repeated field keeps its last row
MappingOf(sheet) ==
    LET clean_data == SelectSeq(sheet, LAMBDA r : notna(r.bcss_field))
    IN  [f \in {clean_data[i].bcss_field.s : i \in DOMAIN clean_data} |->
            LET last == Max({i \in DOMAIN clean_data : clean_data[i].bcss_field.s = f})
            IN  [excel_mapping |-> clean_data[last].excel_mapping,
                 notes |-> clean_data[last].notes]]

-----------------------------------------------------------------------------
(* ExcelAPITool.send_to_api and the HTTP exchange *)

\* what the network does with one request: no reply at all (connection
\* failure), or a response
NoReply == [status_code |-> 0, text |-> <<>>]

Reply(status_code, text) == [status_code |-> status_code, text |-> text]

\* Response.raise_for_status raises HTTPError for 4xx and 5xx
RaisesForStatus(response) == response.status_code >= 400 /\ response.status_code < 600

\* Response.ok
Ok(response) == ~RaisesForStatus(response)

\* bool(response.content)
HasContent(response) == response.text # <<>>

\* whether response.json() parses the body (an object or an array literal)
IsJson(text) ==
    /\ text # <<>>
    /\ \/ Head(text) = "{" /\ text[Len(text)] = "}"
       \/ Head(text) = "[" /\ text[Len(text)] = "]"

IsRequestException(exc) == exc \in {"HTTPError", "ConnectionError", "JSONDecodeError"}

Post == Chars("POST")

Put == Chars("PUT")

\* the outcome of send_to_api when the network answers `reply`: sent tells
\* whether a request was issued; an HTTPError carries its response
send_to_api(method, reply) ==
    IF Upper(method) \notin {Post, Put}
    THEN [sent |-> FALSE, raised |-> TRUE, exc |-> "ValueError", response |-> NoReply]
    ELSE IF reply = NoReply
    THEN [sent |-> TRUE, raised |-> TRUE, exc |-> "ConnectionError", response |-> NoReply]
    ELSE IF RaisesForStatus(reply)
    THEN [sent |-> TRUE, raised |-> TRUE, exc |-> "HTTPError", response |-> reply]
    ELSE [sent |-> TRUE, raised |-> FALSE, exc |-> "", response |-> reply]

\* str(e), kept as the name of the exception
ErrorText(exc) == StrV(Chars(exc))

-----------------------------------------------------------------------------
(* BCSSAPIIntegration.process_excel_file: one pass of the loop body *)

\* the record appended for row number `row_no` in dry-run mode
DryRunRecord(row_no, api_payload) ==
    [row |-> row_no,
     product_code |-> api_payload.productCode,
     status |-> "dry_run",
     payload |-> api_payload]

\* response.text if response.content else None (and response.json() alike,
\* the parsed body being kept as its text)
BodyOrNone(response) == IF HasContent(response) THEN StrV(response.text) ELSE None

\* the record appended after send_to_api returned `response`; json_error is
\* how response.json() fails on a body that is not JSON: "request" (a
\* requests JSONDecodeError, a RequestException, caught by the inner handler)
\* or "value" (a plain ValueError, caught by the outer handler), by the
\* version of the requests library
ResponseRecord(row_no, api_payload, response, json_error) ==
    IF HasContent(response) /\ ~IsJson(response.text) /\ json_error = "request"
    THEN [row |-> row_no,
          product_code |-> api_payload.productCode,
          status |-> "failed",
          error |-> ErrorText("JSONDecodeError"),
          response_body |-> None]
    ELSE IF HasContent(response) /\ ~IsJson(response.text)
    THEN [row |-> row_no, status |-> "failed", error |-> ErrorText("JSONDecodeError")]
    ELSE [row |-> row_no,
          product_code |-> api_payload.productCode,
          status |-> IF Ok(response) THEN "success" ELSE "failed",
          response_status |-> response.status_code,
          response_data |-> BodyOrNone(response),
          response_body |-> BodyOrNone(response)]

\* a variant of RequestFailedRecord that leaves the product code out
RequestFailedRecordWithoutCode(row_no, api_payload, sent) ==
    [row |-> row_no,
     status |-> "failed",
     error |-> ErrorText(sent.exc),
     response_body |-> IF sent.response # NoReply THEN StrV(sent.response.text) ELSE None]

\* the record appended by "except requests.RequestException"
RequestFailedRecord(row_no, api_payload, sent) ==
    [row |-> row_no,
     product_code |-> api_payload.productCode,
     status |-> "failed",
     error |-> ErrorText(sent.exc),
     response_body |-> IF sent.response # NoReply THEN StrV(sent.response.text) ELSE None]

\* the record appended by the outer "except Exception"
RowFailedRecord(row_no, exc) ==
    [row |-> row_no, status |-> "failed", error |-> ErrorText(exc)]

\* the record the loop body appends for one row, the transform having ended
\* with api_payload and send_to_api (when it is called) with sent
RowRecord(row_no, api_payload, dry, sent, json_error) ==
    IF api_payload.raised THEN RowFailedRecord(row_no, api_payload.exc)
    ELSE IF dry THEN DryRunRecord(row_no, api_payload.val)
    ELSE IF ~sent.raised
    THEN ResponseRecord(row_no, api_payload.val, sent.response, json_error)
    ELSE IF IsRequestException(sent.exc)
    THEN RequestFailedRecord(row_no, api_payload.val, sent)
    ELSE RowFailedRecord(row_no, sent.exc)

\* a variant of RowRequests that sends a failed request once more
RowRequestsRetrying(api_payload, dry, method, sent) ==
    IF ~api_payload.raised /\ ~dry /\ sent.sent
    THEN IF sent.raised
         THEN <<[method |-> Upper(method), json |-> api_payload.val,
                 response |-> sent.response],
                [method |-> Upper(method), json |-> api_payload.val,
                 response |-> sent.response]>>
         ELSE <<[method |-> Upper(method), json |-> api_payload.val,
                 response |-> sent.response]>>
    ELSE <<>>

\* a variant of RowRequests that sends whatever the mode
RowRequestsWhateverMode(api_payload, dry, method, sent) ==
    IF ~api_payload.raised /\ sent.sent
    THEN <<[method |-> Upper(method), json |-> api_payload.val, response |-> sent.response]>>
    ELSE <<>>

\* the HTTP requests issued for one row, each with the reply it got
RowRequests(api_payload, dry, method, sent) ==
    IF ~api_payload.raised /\ ~dry /\ sent.sent
    THEN <<[method |-> Upper(method), json |-> api_payload.val, response |-> sent.response]>>
    ELSE <<>>

-----------------------------------------------------------------------------
(* BCSSAPIIntegration.create_single_product *)

\* a variant of create_single_product without the except clause for the
\* mapping: what the transform raised leaves the call
create_single_product_uncaught(api_payload, dry, sent) ==
    IF api_payload.raised
    THEN api_payload
    ELSE IF dry
    THEN [status |-> "dry_run",
          product_code |-> api_payload.val.productCode,
          payload |-> api_payload.val]
    ELSE IF sent.raised
    THEN [status |-> "failed", error |-> ErrorText(sent.exc)]
    ELSE IF HasContent(sent.response) /\ ~IsJson(sent.response.text)
    THEN [status |-> "failed", error |-> ErrorText("JSONDecodeError")]
    ELSE [status |-> "success",
          product_code |-> api_payload.val.productCode,
          response_status |-> sent.response.status_code,
          response_data |-> BodyOrNone(sent.response)]

create_single_product(api_payload, dry, sent) ==
    IF api_payload.raised
    THEN [status |-> "failed", error |-> ErrorText(api_payload.exc)]
    ELSE IF dry
    THEN [status |-> "dry_run",
          product_code |-> api_payload.val.productCode,
          payload |-> api_payload.val]
    ELSE IF sent.raised
    THEN [status |-> "failed", error |-> ErrorText(sent.exc)]
    ELSE IF HasContent(sent.response) /\ ~IsJson(sent.response.text)
    THEN [status |-> "failed", error |-> ErrorText("JSONDecodeError")]
    ELSE [status |-> "success",
          product_code |-> api_payload.val.productCode,
          response_status |-> sent.response.status_code,
          response_data |-> BodyOrNone(sent.response)]

-----------------------------------------------------------------------------
(* ExcelAPITool: transform_row_to_api_format and the loop body of           *)
(* process_all_rows                                                         *)

\* self.data before load_excel_data
NoData == [loaded |-> FALSE, rows |-> <<>>]

\* self.data after load_excel_data read `table`
Loaded(table) == [loaded |-> TRUE, rows |-> table]

\* a variant of ApiValue that copies NaN cells as they are
ApiValueAsRead(value) == value

\* "api_data[api_field] = None if pd.isna(value) else value"
ApiValue(value) == IF isna(value) THEN None ELSE value

\* the loop over column_mapping.items(), from its i-th pair on
RECURSIVE transform_row_to_api_format(_, _, _, _)
transform_row_to_api_format(mapping, row, api_data, i) ==
    IF i > Len(mapping) THEN api_data
    ELSE IF InIndex(row, StrV(mapping[i].excel_col))
    THEN transform_row_to_api_format(
             mapping, row,
             SetKey(api_data, mapping[i].api_field,
                    ApiValue(Cell(row, StrV(mapping[i].excel_col)))),
             i + 1)
    ELSE transform_row_to_api_format(mapping, row, api_data, i + 1)

\* the record process_all_rows appends for one row
ToolRecord(row_no, api_data, dry, sent) ==
    IF dry THEN [row |-> row_no, data |-> api_data, status |-> "dry_run"]
    ELSE IF sent.raised
    THEN [row |-> row_no, status |-> "failed", error |-> ErrorText(sent.exc)]
    ELSE [row |-> row_no,
          data |-> api_data,
          status |-> "success",
          response_status |-> sent.response.status_code]

\* a variant of ToolRequests that sends a failed request a second time
ToolRequestsRetrying(api_data, dry, method, sent) ==
    IF ~dry /\ sent.sent
    THEN IF sent.raised
         THEN <<[method |-> Upper(method), json |-> api_data, response |-> sent.response],
                [method |-> Upper(method), json |-> api_data, response |-> sent.response]>>
         ELSE <<[method |-> Upper(method), json |-> api_data, response |-> sent.response]>>
    ELSE <<>>

\* the HTTP requests process_all_rows issues for one row
ToolRequests(api_data, dry, method, sent) ==
    IF ~dry /\ sent.sent
    THEN <<[method |-> Upper(method), json |-> api_data, response |-> sent.response]>>
    ELSE <<>>

-----------------------------------------------------------------------------
(* delete_products_by_id_range *)

Delete == Chars("DELETE")

\* the record of an id whose DELETE got a response with a readable body
DeletedRecord(product_id, response) ==
    [product_id |-> product_id,
     status |-> IF Ok(response) THEN "success" ELSE "failed",
     response_status |-> response.status_code,
     response_data |-> BodyOrNone(response),
     response_body |-> StrV(response.text)]

\* the record the except branch appends
DeleteFailedRecord(product_id, exc) ==
    [product_id |-> product_id, status |-> "failed", error |-> ErrorText(exc)]

\* the record of one id: requests.delete raised, or response.json() raised
\* on a body that is not JSON, or the response was recorded
DeleteRecord(product_id, reply) ==
    IF reply = NoReply THEN DeleteFailedRecord(product_id, "ConnectionError")
    ELSE IF HasContent(reply) /\ ~IsJson(reply.text)
    THEN DeleteFailedRecord(product_id, "JSONDecodeError")
    ELSE DeletedRecord(product_id, reply)

\* what one pass of the loop appends to the results
DeleteRecords(product_id, reply) == <<DeleteRecord(product_id, reply)>>

\* the request of one id
DeleteRequest(product_id, reply) ==
    [method |-> Delete, url |-> product_id, response |-> reply]

-----------------------------------------------------------------------------
(* Inputs *)

MaxRows == 3

MaxId == 3

\* the (start_id, end_id) pairs given to delete_products_by_id_range
IdRanges == (1..MaxId) \X (0..MaxId)

MkRow(cols, vals) == [i \in 1..Len(cols) |-> [col |-> cols[i], val |-> vals[i]]]

Entry(bcss_field, excel_mapping, notes) ==
    [bcss_field |-> StrV(bcss_field), excel_mapping |-> excel_mapping, notes |-> notes]

NoteColumn == StrV(Chars("Column of the product file"))

NoteFixedValue == StrV(Chars("Fixed value"))

NoteFixedText == StrV(TextCoDinh)

NoteSupport == StrV(Chars("Column of the product file (") \o SupportEqCo \o Chars(")"))

\* the mapping sheet of the test fixture (src/test_bcss_integration.py)
FixtureSheet ==
    << Entry("Ma san pham", StrV(Chars("SKUID-Days")), NoteColumn),
       Entry("Ten san pham", StrV(Chars("Product Name Short")), NoteColumn),
       Entry("Nhom san pham", StrV(SimOutbound), NoteFixedValue),
       Entry("Don vi tinh", StrV(Cai), NoteFixedText),
       Entry("SKY package code", StrV(Trong), NaN),
       Entry("Khoi luong", StrV(Trong), NaN),
       Entry("So ngay su dung", StrV(Chars("Days")), NoteColumn),
       Entry("Dung luong toc do cao", StrV(Chars("High Speed Data (MB or GB or GB/day)")), NoteColumn),
       Entry("Loai goi", StrV(Chars("Package type")), NoteFixedText),
       Entry("eKYC (Xac minh danh tinh)", StrV(KhongBatBuoc), NoteFixedValue),
       Entry("Het toc do cao giam xuong", StrV(Chars("Throttled Speed (kbps)")), NoteColumn),
       Entry("Chia se Wifi", StrV(Chars("Hotspot sharing")), NoteSupport),
       Entry("Loai SIM", StrV(Chars("Support eSIM/Sim Card")), NoteColumn),
       Entry("Pham vi phu song", StrV(Chars("National Area")), NoteColumn),
       Entry("SKUID", StrV(Chars("SKUID")), NoteColumn),
       Entry("Nha cung cap", StrV(Chars("Telco")), NoteColumn),
       Entry("Gia hang hoa", StrV(Chars("Price 26.5")), NoteColumn),
       Entry("VAT", IntV(10), NoteFixedText) >>

\* a sheet whose notes are partly empty and whose VAT comes from a column
BlankNotesSheet ==
    << [bcss_field |-> NaN, excel_mapping |-> NaN, notes |-> NaN],
       Entry("Ma san pham", StrV(Chars("SKUID")), NoteColumn),
       Entry("Ten san pham", StrV(Chars("Product Name Short")), NaN),
       Entry("SKY package code", StrV(Chars("Package code")), NoteSupport),
       Entry("Loai san pham", NaN, NaN),
       Entry("So ngay su dung", StrV(Chars("Days")), NoteColumn),
       Entry("SKUID", StrV(Chars("SKU")), NoteColumn),
       Entry("Gia hang hoa", StrV(Chars("Price 26.5")), NaN),
       Entry("VAT", StrV(Chars("VAT")), NaN) >>

\* a sheet that names a package-code column and leaves price and VAT unset
PackageCodeSheet ==
    << Entry("Ten san pham", StrV(Chars("Name")), NoteColumn),
       Entry("Ten san pham", StrV(Chars("Product Name Short")), NoteSupport),
       Entry("SKY package code", StrV(Chars("Package code")), NoteColumn),
       Entry("Gia hang hoa", NaN, NoteColumn),
       Entry("Nha cung cap", StrV(Chars("Telco")), NoteColumn) >>

\* a sheet with a number where a column name is expected
NumericColumnSheet ==
    << Entry("Ten san pham", StrV(Chars("Product Name Short")), NoteColumn),
       Entry("Gia hang hoa", IntV(5), NoteColumn),
       Entry("Nha cung cap", IntV(7), NaN) >>

\* a sheet whose hotspot and SIM-type entries name no source column
UnsetColumnSheet ==
    << Entry("Chia se Wifi", NaN, NoteSupport),
       Entry("Loai SIM", NaN, NaN),
       Entry("Pham vi phu song", StrV(Chars("Area")), NaN),
       Entry("So ngay su dung", StrV(Chars("Days")), NoteColumn) >>

\* a sheet whose slots meet two rules of the chain at once: a fixed name with
\* the fixed-text note, a fixed name that is also a column of some row, a
\* column of the row with the fixed-text note, and a name with the fixed-text
\* note that is only similar to a column
RuleOrderSheet ==
    << Entry("Loai goi", StrV(SimOutbound), NoteFixedText),
       Entry("eKYC (Xac minh danh tinh)", StrV(KhongBatBuoc), NoteColumn),
       Entry("SKUID", StrV(Chars("SKUID")), NoteFixedText),
       Entry("Nha cung cap", StrV(Chars("Tel")), NoteFixedText) >>

MappingSheets ==
    {FixtureSheet, BlankNotesSheet, PackageCodeSheet, NumericColumnSheet, UnsetColumnSheet,
     RuleOrderSheet}

SimpleColumns ==
    <<Chars("SKUID"), Chars("Days"), Chars("Product Name Short"),
      Chars("Package code"), Chars("Price 26.5"), Chars("VAT")>>

SkuidInputs == {NaN, StrV(<<>>), StrV(Chars("TEST001"))}

DaysInputs == {NaN, StrV(Chars("30"))}

NameInputs == {NaN, StrV(Chars("Test SIM Package")), StrV(Chars("Supported")), StrV(Trong)}

PckInputs == {NaN, StrV(Chars("PCK1"))}

PriceInputs == {NaN, StrV(Chars("50000")), StrV(Chars("abc")), FloatV(125)}

VatInputs == {NaN, StrV(Chars(" 8 ")), StrV(Chars("8%"))}

\* the raw values given to a direct call of _process_mapping_value
MappingValues ==
    { NaN, None, StrV(<<>>), StrV(Trong), StrV(Chars("  ")),
      StrV(Chars("Support")), StrV(Chars("SUPPORTED")), StrV(Chars("not supported ")),
      StrV(KhongBatBuoc \o Chars(" (no Support)")), StrV(KhongBatBuoc),
      StrV(Co), StrV(<<"C", "o'">>), StrV(Chars(" YES ")), StrV(Yes),
      StrV(Chars("kh") \o <<"o^">> \o Chars("ng")), StrV(Chars("Normal value")),
      IntV(123), IntV(0), FloatV(15) }

\* the notes given to it: the default '', an empty note cell, text, a number
NoteValues ==
    { StrV(<<>>), NaN, None, StrV(SupportEqCo), NoteSupport,
      StrV(Chars("Support = C") \o <<"o'">>), NoteColumn, IntV(1) }

\* rows that vary the cells the product code and the simple fields read
CodeRows ==
    {MkRow(SimpleColumns, <<s, d, n, p, StrV(Chars("50000")), NaN>>) :
        s \in SkuidInputs, d \in DaysInputs, n \in NameInputs, p \in PckInputs}

\* rows that vary the cells the price and the VAT read
AmountRows ==
    {MkRow(SimpleColumns, <<StrV(Chars("TEST001")), NaN, n, NaN, pr, v>>) :
        n \in {NaN, StrV(Chars("Test SIM Package"))}, pr \in PriceInputs, v \in VatInputs}

SimpleRows == CodeRows \cup AmountRows

\* rows with other column sets: no column at all, the row of the fixture's
\* transform test, several SKUID-like and days-like columns
OtherRows ==
    { <<>>,
      MkRow(<<Chars("SKUID"), Chars("Days"), Chars("Product Name Short"),
              Chars("High Speed Data (MB or GB or GB/day)"), Chars("Package type"),
              Chars("Throttled Speed (kbps)"), Chars("Hotspot sharing"),
              Chars("Support eSIM/Sim Card"), Chars("National Area"), Chars("Telco"),
              Chars("Price 26.5")>>,
            <<StrV(Chars("TEST001")), StrV(Chars("30")), StrV(Chars("Test SIM Package")),
              StrV(Chars("5GB")), StrV(Chars("Prepaid")), StrV(Chars("128")),
              StrV(Chars("Support")), StrV(Chars("eSIM")), StrV(Chars("Vietnam")),
              StrV(Chars("Viettel")), StrV(Chars("50000"))>>),
      MkRow(<<Chars("SKUID"), Chars("Parent skuid"), Chars(" DAYS ")>>,
            <<StrV(Chars("A1")), StrV(Chars("B2")), IntV(7)>>),
      MkRow(<<Chars("SKUID"), Chars("Parent skuid"), Chars("days")>>,
            <<StrV(Chars("A1")), StrV(<<>>), FloatV(300)>>),
      MkRow(<<Chars("SKUID"), Chars("Parent skuid")>>,
            <<StrV(Chars("A1")), NaN>>),
      MkRow(<<Chars("Parent skuid"), Chars("SKUID")>>,
            <<NaN, StrV(Chars("A1"))>>),
      MkRow(<<Chars("SKUID"), KhongBatBuoc, Chars("Telco")>>,
            <<StrV(Chars(" ")), StrV(Chars("x")), StrV(Chars("Viettel"))>>),
      MkRow(<<Chars("Sku id"), Chars("Days"), Chars("days")>>,
            <<StrV(Chars("A1")), StrV(Chars("7")), StrV(<<>>)>>),
      MkRow(<<Chars("SKUID"), Chars("Total days")>>,
            <<IntV(4711), StrV(Chars("7"))>>) }

AttributeColumns ==
    <<Chars("SKUID"), Chars("Days"), Chars("Product Name Short"),
      Chars("High Speed Data (MB or GB or GB/day)"), Chars("Package type"),
      Chars("Throttled Speed (kbps)"), Chars("Hotspot sharing"),
      Chars("Support eSIM/Sim Card"), Chars("National Area"), Chars("Telco"),
      Chars("Price 26.5")>>

\* the row of the fixture's transform test with other cells for the days,
\* the throttle, the hotspot, the SIM type and the coverage area
AttributeRow(days, throttle, hotspot, sim, area) ==
    MkRow(AttributeColumns,
          <<StrV(Chars("TEST001")), days, StrV(Chars("Test SIM Package")),
            StrV(Chars("5GB")), StrV(Chars("Prepaid")), throttle, hotspot, sim, area,
            StrV(Chars("Viettel")), StrV(Chars("50000"))>>)

ThrottleInputs ==
    { StrV(Chars("128")), IntV(128), StrV(Infinity), StrV(Chars("-1")), IntV(-1),
      StrV(Chars("1.5")), FloatV(1280), NaN,
      StrV(Chars("1Mbps")), StrV(Chars("1 Mbps")), StrV(Chars("5 Mbps")),
      StrV(Chars("5mbps")), StrV(Chars("5MBPS")), StrV(Chars("5Mbps")),
      StrV(Chars("256kbps")), StrV(Chars("256 Kbps")), StrV(Chars("256KBPS")),
      StrV(Chars("unlimited")) }

HotspotInputs ==
    { StrV(Chars("Support")), StrV(Chars("NOT SUPPORTED")), StrV(Chars("No")), NaN,
      StrV(<<>>), IntV(1) }

SimInputs ==
    { StrV(Chars("eSIM")), StrV(Chars(" ESIM ")), StrV(Chars("esim")),
      StrV(Chars("Sim Card")), StrV(Chars("SIM CARD")), StrV(Chars("eSIM/Sim Card")),
      StrV(Chars("Physical")), NaN, IntV(2) }

AreaInputs ==
    { StrV(Chars("Vietnam")), StrV(Chars("Japan")), StrV(Chars("Atlantis")),
      StrV(Chars("vietnam")), StrV(Chars("12")), NaN, StrV(<<>>), IntV(35) }

AttributeDaysInputs ==
    { StrV(Chars("30")), StrV(Chars(" 7 ")), StrV(Chars("30.9")), IntV(15), FloatV(300),
      StrV(Chars("30 days")), StrV(<<>>), StrV(Trong), NaN }

\* rows that vary one attribute cell of the fixture's row at a time
AttributeRows ==
    {AttributeRow(StrV(Chars("30")), th, StrV(Chars("Support")), StrV(Chars("eSIM")),
                  StrV(Chars("Vietnam"))) : th \in ThrottleInputs}
    \cup {AttributeRow(StrV(Chars("30")), StrV(Chars("128")), h, StrV(Chars("eSIM")),
                       StrV(Chars("Vietnam"))) : h \in HotspotInputs}
    \cup {AttributeRow(StrV(Chars("30")), StrV(Chars("128")), StrV(Chars("Support")), s,
                       StrV(Chars("Vietnam"))) : s \in SimInputs}
    \cup {AttributeRow(StrV(Chars("30")), StrV(Chars("128")), StrV(Chars("Support")),
                       StrV(Chars("eSIM")), a) : a \in AreaInputs}
    \cup {AttributeRow(d, StrV(Chars("128")), StrV(Chars("Support")), StrV(Chars("eSIM")),
                       StrV(Chars("Vietnam"))) : d \in AttributeDaysInputs}

Rows == SimpleRows \cup OtherRows \cup AttributeRows

\* the rows of a product file read by process_excel_file
TableRows ==
    { MkRow(SimpleColumns,
            <<StrV(Chars("TEST001")), StrV(Chars("30")), StrV(Chars("Test SIM Package")),
              NaN, StrV(Chars("50000")), NaN>>),
      MkRow(SimpleColumns,
            <<StrV(Chars("X2")), NaN, NaN, StrV(Chars("PCK1")), StrV(Chars("abc")), NaN>>) }

\* the product files: up to MaxRows rows, the two rows taking turns
Table(first, second, n) == [i \in 1..n |-> IF i % 2 = 1 THEN first ELSE second]

Tables ==
    {Table(rows[1], rows[2], n) :
        rows \in {r \in TableRows \X TableRows : r[1] # r[2]}, n \in 0..MaxRows}

StartRows == 1..(MaxRows + 1)

Timestamps ==
    { [year |-> 2025, month |-> 6, day |-> 1, hour |-> 0, minute |-> 0, second |-> 5],
      [year |-> 2026, month |-> 11, day |-> 4, hour |-> 23, minute |-> 59, second |-> 59] }

Replies ==
    { NoReply,
      Reply(201, Chars("{\"id\": 123}")),
      Reply(200, Chars("Created")),
      Reply(204, <<>>),
      Reply(304, <<>>),
      Reply(400, Chars("{\"error\": \"duplicate\"}")) }

Pair(excel_col, api_field) == [excel_col |-> Chars(excel_col), api_field |-> api_field]

\* the column mappings given to set_column_mapping
ColumnMappings ==
    { <<>>,
      <<Pair("SKUID", "sku"), Pair("Days", "validity"), Pair("Telco", "provider")>>,
      <<Pair("Product Name Short", "name"), Pair("Package code", "name")>> }

\* api_config.method of a process_all_rows call
Methods == {Post, Chars("put"), Chars("DELETE")}

\* the numbers of rows asked of preview_data; 5 is its default
PreviewCounts == {0, 2, 5}

\* the data given to a direct call of send_to_api
ApiData ==
    {transform_row_to_api_format(mapping, row, <<>>, 1) :
        mapping \in ColumnMappings, row \in TableRows}

JsonErrors == {"request", "value"}

\* api_config.method as _setup_api_config sets it
BcssMethod == Post

-----------------------------------------------------------------------------
(* The state machine *)

\* the fields of an ExcelAPITool and the api_config of its call
tool == <<data, column_mapping, mapping_set, api_method>>

NoRet == [status |-> ""]

\* no direct call of _process_mapping_value or send_to_api is under way
NoArgs == <<>>

Init ==
    /\ obj \in {"BCSSAPIIntegration", "ExcelAPITool", "bcss_api_integration"}
    /\ mapping_data = <<>>
    /\ data = NoData
    /\ column_mapping = <<>>
    /\ mapping_set = FALSE
    /\ api_method = Post
    /\ pc = "idle"
    /\ op = ""
    /\ call_row = <<>>
    /\ call_now = CHOOSE t \in Timestamps : TRUE
    /\ call_args = NoArgs
    /\ product_data = <<>>
    /\ dry_run = TRUE
    /\ start_row = 1
    /\ index = 0
    /\ results = <<>>
    /\ http_log = <<>>
    /\ transform_log = <<>>
    /\ ret = NoRet

\* load_excel_mapping(): the file is the one given to the constructor, so a
\* second load reads the same sheet and changes nothing
LoadExcelMapping(sheet) ==
    /\ obj = "BCSSAPIIntegration"
    /\ pc = "idle"
    /\ DOMAIN mapping_data = {}
    /\ DOMAIN MappingOf(sheet) # {}
    /\ mapping_data' = MappingOf(sheet)
    /\ UNCHANGED <<obj, tool, pc, op, call_row, call_now, call_args, product_data, dry_run,
                   start_row, index, results, http_log, transform_log, ret>>

\* a direct call of _process_mapping_value(mapping_value, notes)
CallProcessMappingValue(mapping_value, notes) ==
    /\ obj = "BCSSAPIIntegration"
    /\ pc = "idle"
    /\ pc' = "returned"
    /\ op' = "_process_mapping_value"
    /\ call_args' = [mapping_value |-> mapping_value, notes |-> notes]
    /\ ret' = _process_mapping_value(mapping_value, notes)
    /\ UNCHANGED <<obj, mapping_data, tool, call_row, call_now, product_data, dry_run,
                   start_row, index, results, http_log, transform_log>>

\* the entry of transform_log for the call made for row number row_no
Logged(row_no, api_payload) ==
    transform_log' = Append(transform_log, [row |-> row_no, outcome |-> api_payload])

\* a direct call ends with the outcome of the transform
Transformed(row_no, api_payload) ==
    /\ ret' = api_payload
    /\ Logged(row_no, api_payload)

\* a direct call of transform_excel_row_to_api(row)
CallTransform(row, t) ==
    /\ obj = "BCSSAPIIntegration"
    /\ pc = "idle"
    /\ pc' = "returned"
    /\ op' = "transform_excel_row_to_api"
    /\ call_row' = row
    /\ call_now' = t
    /\ call_args' = NoArgs
    /\ Transformed(1, transform_excel_row_to_api(mapping_data, row, t))
    /\ UNCHANGED <<obj, mapping_data, tool, product_data, dry_run, start_row, index, results,
                   http_log>>

\* the state after a call that ended with outcome `out`, a record of the
\* value returned and the requests issued
Finished(out) ==
    /\ ret' = out.ret
    /\ http_log' = out.requests

\* create_single_product(product, dry_run): its result and its requests
SingleProductOutcome(api_payload, dry, sent) ==
    [ret |-> create_single_product(api_payload, dry, sent),
     requests |-> RowRequests(api_payload, dry, BcssMethod, sent)]

\* the rest of the call, the transform having ended with api_payload
AfterTransform(api_payload) ==
    \E dry \in BOOLEAN, reply \in Replies :
        /\ dry_run' = dry
        /\ Logged(1, api_payload)
        /\ Finished(SingleProductOutcome(api_payload, dry, send_to_api(BcssMethod, reply)))

CallCreateSingleProduct(product, t) ==
    /\ obj = "BCSSAPIIntegration"
    /\ pc = "idle"
    /\ pc' = "returned"
    /\ op' = "create_single_product"
    /\ call_row' = product
    /\ call_now' = t
    /\ AfterTransform(transform_excel_row_to_api(mapping_data, product, t))
    /\ UNCHANGED <<obj, mapping_data, tool, call_args, product_data, start_row, index,
                   results>>

\* process_excel_file(file, dry, start): the product file is read
StartProcessExcelFile(table, dry, start) ==
    /\ obj = "BCSSAPIIntegration"
    /\ pc = "idle"
    /\ pc' = "loop"
    /\ op' = "process_excel_file"
    /\ product_data' = table
    /\ dry_run' = dry
    /\ start_row' = start
    /\ index' = 0
    /\ results' = <<>>
    /\ http_log' = <<>>
    /\ transform_log' = <<>>
    /\ UNCHANGED <<obj, mapping_data, tool, call_row, call_now, call_args, ret>>

\* what one pass of the loop body does for a row that is not skipped
RowOutcome(row_no, api_payload, dry, sent, json_error) ==
    [record |-> RowRecord(row_no, api_payload, dry, sent, json_error),
     requests |-> RowRequests(api_payload, dry, BcssMethod, sent)]

Recorded(out) ==
    /\ results' = Append(results, out.record)
    /\ http_log' = http_log \o out.requests

\* a payload built on a template that is shared by the rows: the attribute
\* list of the row before is still in it
OnSharedTemplate(api_payload) ==
    IF api_payload.raised \/ transform_log = <<>>
       \/ transform_log[Len(transform_log)].outcome.raised
    THEN api_payload
    ELSE Returned([api_payload.val EXCEPT
                      !.attributeValueList =
                          transform_log[Len(transform_log)].outcome.val.attributeValueList
                              \o @])

\* a variant of AfterRowTransform in which the template outlives the row
AfterRowTransformOnSharedTemplate(row_no, api_payload) ==
    \E reply \in Replies, json_error \in JsonErrors :
        /\ Logged(row_no, OnSharedTemplate(api_payload))
        /\ Recorded(RowOutcome(row_no, OnSharedTemplate(api_payload), dry_run,
                               send_to_api(BcssMethod, reply), json_error))

\* the rest of the loop body, the transform having ended with api_payload
AfterRowTransform(row_no, api_payload) ==
    \E reply \in Replies, json_error \in JsonErrors :
        /\ Logged(row_no, api_payload)
        /\ Recorded(RowOutcome(row_no, api_payload, dry_run, send_to_api(BcssMethod, reply),
                               json_error))

\* a variant of ProcessRow that compares the 0-based index with start_row
ProcessRowFromIndex ==
    /\ pc = "loop"
    /\ op = "process_excel_file"
    /\ index < Len(product_data)
    /\ index' = index + 1
    /\ \/ /\ index < start_row
          /\ UNCHANGED <<results, http_log, transform_log>>
       \/ /\ ~(index < start_row)
          /\ \E t \in Timestamps :
                AfterRowTransform(index + 1,
                                  transform_excel_row_to_api(mapping_data,
                                                             product_data[index + 1], t))
    /\ UNCHANGED <<obj, mapping_data, tool, pc, op, call_row, call_now, call_args, product_data,
                   dry_run, start_row, ret>>

\* a pass of the loop that ends the loop when the row fails
AbortingRow(row_no, api_payload) ==
    \E reply \in Replies, json_error \in JsonErrors :
        LET out == RowOutcome(row_no, api_payload, dry_run, send_to_api(BcssMethod, reply),
                              json_error)
        IN  /\ Logged(row_no, api_payload)
            /\ Recorded(out)
            /\ index' = IF out.record.status = "failed" THEN Len(product_data) ELSE row_no

\* a variant of ProcessRow without the handlers: the first failure ends the
\* loop
ProcessRowAbortingOnFailure ==
    /\ pc = "loop"
    /\ op = "process_excel_file"
    /\ index < Len(product_data)
    /\ \/ /\ index + 1 < start_row
          /\ index' = index + 1
          /\ UNCHANGED <<results, http_log, transform_log>>
       \/ /\ ~(index + 1 < start_row)
          /\ \E t \in Timestamps :
                AbortingRow(index + 1,
                            transform_excel_row_to_api(mapping_data,
                                                       product_data[index + 1], t))
    /\ UNCHANGED <<obj, mapping_data, tool, pc, op, call_row, call_now, call_args, product_data,
                   dry_run, start_row, ret>>

\* one pass of the loop of process_excel_file: a row before start_row is
\* skipped, any other row appends exactly one record
ProcessRow ==
    /\ pc = "loop"
    /\ op = "process_excel_file"
    /\ index < Len(product_data)
    /\ index' = index + 1
    /\ \/ /\ index + 1 < start_row
          /\ UNCHANGED <<results, http_log, transform_log>>
       \/ /\ ~(index + 1 < start_row)
          /\ \E t \in Timestamps :
                AfterRowTransform(index + 1,
                                  transform_excel_row_to_api(mapping_data,
                                                             product_data[index + 1], t))
    /\ UNCHANGED <<obj, mapping_data, tool, pc, op, call_row, call_now, call_args, product_data,
                   dry_run, start_row, ret>>

CountStatus(rs, status) == Cardinality({i \in DOMAIN rs : rs[i].status = status})

\* the end of process_excel_file: the summary is logged, the list returned
FinishProcessExcelFile ==
    /\ pc = "loop"
    /\ op = "process_excel_file"
    /\ index = Len(product_data)
    /\ pc' = "returned"
    /\ ret' = [status |-> "summary",
               total |-> Len(results),
               success |-> CountStatus(results, "success"),
               failed |-> CountStatus(results, "failed"),
               dry_run |-> CountStatus(results, "dry_run")]
    /\ UNCHANGED <<obj, mapping_data, tool, op, call_row, call_now, call_args, product_data,
                   dry_run, start_row, index, results, http_log, transform_log>>

\* ExcelAPITool.load_excel_data(): the sheet is read into self.data
LoadExcelData(table) ==
    /\ obj = "ExcelAPITool"
    /\ pc = "idle"
    /\ data' = Loaded(table)
    /\ UNCHANGED <<obj, mapping_data, column_mapping, mapping_set, api_method, pc, op,
                   call_row, call_now, call_args, product_data, dry_run, start_row, index,
                   results, http_log, transform_log, ret>>

\* ExcelAPITool.set_column_mapping(mapping)
SetColumnMapping(mapping) ==
    /\ obj = "ExcelAPITool"
    /\ pc = "idle"
    /\ column_mapping' = mapping
    /\ mapping_set' = TRUE
    /\ UNCHANGED <<obj, mapping_data, data, api_method, pc, op, call_row, call_now, call_args,
                   product_data, dry_run, start_row, index, results, http_log, transform_log,
                   ret>>

\* self.data.head(rows)
Head_(rows, n) == SubSeq(rows, 1, IF n < Len(rows) THEN n ELSE Len(rows))

\* ExcelAPITool.preview_data(rows)
CallPreviewData(rows) ==
    /\ obj = "ExcelAPITool"
    /\ pc = "idle"
    /\ pc' = "returned"
    /\ op' = "preview_data"
    /\ ret' = IF ~data.loaded THEN Raised("ValueError", "preview_data")
              ELSE [raised |-> FALSE, exc |-> "", at |-> "", val |-> Head_(data.rows, rows)]
    /\ UNCHANGED <<obj, mapping_data, tool, call_row, call_now, call_args, product_data,
                   dry_run, start_row, index, results, http_log, transform_log>>

\* a variant of StartProcessAllRows without the check of the column mapping
StartProcessAllRowsUnchecked(method, dry) ==
    /\ obj = "ExcelAPITool"
    /\ pc = "idle"
    /\ op' = "process_all_rows"
    /\ api_method' = method
    /\ dry_run' = dry
    /\ index' = 0
    /\ results' = <<>>
    /\ http_log' = <<>>
    /\ IF ~data.loaded
       THEN /\ pc' = "returned"
            /\ ret' = Raised("ValueError", "process_all_rows")
       ELSE /\ pc' = "loop"
            /\ ret' = ret
    /\ UNCHANGED <<obj, mapping_data, data, column_mapping, mapping_set, call_row, call_now,
                   call_args, product_data, start_row, transform_log>>

\* process_all_rows(api_config, dry_run=dry): the two checks, then the loop
\* over self.data starts
StartProcessAllRows(method, dry) ==
    /\ obj = "ExcelAPITool"
    /\ pc = "idle"
    /\ op' = "process_all_rows"
    /\ api_method' = method
    /\ dry_run' = dry
    /\ index' = 0
    /\ results' = <<>>
    /\ http_log' = <<>>
    /\ IF ~data.loaded \/ column_mapping = <<>>
       THEN /\ pc' = "returned"
            /\ ret' = Raised("ValueError", "process_all_rows")
       ELSE /\ pc' = "loop"
            /\ ret' = ret
    /\ UNCHANGED <<obj, mapping_data, data, column_mapping, mapping_set, call_row, call_now,
                   call_args, product_data, start_row, transform_log>>

ToolOutcome(row_no, api_data, dry, method, sent) ==
    [record |-> ToolRecord(row_no, api_data, dry, sent),
     requests |-> ToolRequests(api_data, dry, method, sent)]

\* one pass of the loop of process_all_rows
ProcessAllRowsRow ==
    /\ pc = "loop"
    /\ op = "process_all_rows"
    /\ index < Len(data.rows)
    /\ index' = index + 1
    /\ \E reply \in Replies :
          Recorded(ToolOutcome(index + 1,
                               transform_row_to_api_format(column_mapping,
                                                           data.rows[index + 1], <<>>, 1),
                               dry_run, api_method, send_to_api(api_method, reply)))
    /\ UNCHANGED <<obj, mapping_data, tool, pc, op, call_row, call_now, call_args, product_data,
                   dry_run, start_row, transform_log, ret>>

\* the end of process_all_rows: the result list is returned
FinishProcessAllRows ==
    /\ pc = "loop"
    /\ op = "process_all_rows"
    /\ index = Len(data.rows)
    /\ pc' = "returned"
    /\ ret' = [status |-> "results", total |-> Len(results)]
    /\ UNCHANGED <<obj, mapping_data, tool, op, call_row, call_now, call_args, product_data,
                   dry_run, start_row, index, results, http_log, transform_log>>

\* what a direct call of send_to_api ends with: the response, or the
\* exception it re-raises
SendOutcome(sent) ==
    IF sent.raised THEN Raised(sent.exc, "send_to_api")
    ELSE [raised |-> FALSE, exc |-> "", at |-> "", val |-> sent.response]

\* a direct call of send_to_api(api_config, data)
CallSendToApi(method, api_data, reply) ==
    /\ obj = "ExcelAPITool"
    /\ pc = "idle"
    /\ pc' = "returned"
    /\ op' = "send_to_api"
    /\ api_method' = method
    /\ call_args' = [data |-> api_data]
    /\ ret' = SendOutcome(send_to_api(method, reply))
    /\ http_log' = ToolRequests(api_data, FALSE, method, send_to_api(method, reply))
    /\ UNCHANGED <<obj, mapping_data, data, column_mapping, mapping_set, call_row, call_now,
                   product_data, dry_run, start_row, index, results, transform_log>>

\* delete_products_by_id_range(start_id, end_id, bearer_token), up to the loop
StartDeleteProducts(start_id, end_id) ==
    /\ obj = "bcss_api_integration"
    /\ pc = "idle"
    /\ pc' = "loop"
    /\ op' = "delete_products_by_id_range"
    /\ call_args' = [start_id |-> start_id, end_id |-> end_id]
    /\ index' = 0
    /\ results' = <<>>
    /\ http_log' = <<>>
    /\ UNCHANGED <<obj, mapping_data, tool, call_row, call_now, product_data, dry_run,
                   start_row, transform_log, ret>>

\* one pass of its loop, for product_id = start_id + index
DeleteProduct ==
    /\ pc = "loop"
    /\ op = "delete_products_by_id_range"
    /\ call_args.start_id + index <= call_args.end_id
    /\ index' = index + 1
    /\ \E reply \in Replies :
          /\ http_log' = Append(http_log, DeleteRequest(call_args.start_id + index, reply))
          /\ results' = results \o DeleteRecords(call_args.start_id + index, reply)
    /\ UNCHANGED <<obj, mapping_data, tool, pc, op, call_row, call_now, call_args,
                   product_data, dry_run, start_row, transform_log, ret>>

\* the end of the loop: the list of results is returned
FinishDeleteProducts ==
    /\ pc = "loop"
    /\ op = "delete_products_by_id_range"
    /\ call_args.start_id + index > call_args.end_id
    /\ pc' = "returned"
    /\ ret' = [status |-> "results", total |-> Len(results)]
    /\ UNCHANGED <<obj, mapping_data, tool, op, call_row, call_now, call_args, product_data,
                   dry_run, start_row, index, results, http_log, transform_log>>

\* the caller takes the result; nothing but the object's fields outlives a call
Return ==
    /\ pc = "returned"
    /\ pc' = "idle"
    /\ op' = ""
    /\ call_row' = <<>>
    /\ call_now' = CHOOSE t \in Timestamps : TRUE
    /\ call_args' = NoArgs
    /\ product_data' = <<>>
    /\ dry_run' = TRUE
    /\ start_row' = 1
    /\ index' = 0
    /\ results' = <<>>
    /\ http_log' = <<>>
    /\ transform_log' = <<>>
    /\ ret' = NoRet
    /\ api_method' = Post
    /\ UNCHANGED <<obj, mapping_data, data, column_mapping, mapping_set>>

Next ==
    \/ \E sheet \in MappingSheets : LoadExcelMapping(sheet)
    \/ \E mapping_value \in MappingValues, notes \in NoteValues :
          CallProcessMappingValue(mapping_value, notes)
    \/ \E row \in Rows, t \in Timestamps : CallTransform(row, t)
    \/ \E product \in Rows, t \in Timestamps : CallCreateSingleProduct(product, t)
    \/ \E table \in Tables, dry \in BOOLEAN, start \in StartRows :
          StartProcessExcelFile(table, dry, start)
    \/ ProcessRow
    \/ FinishProcessExcelFile
    \/ \E table \in Tables : LoadExcelData(table)
    \/ \E mapping \in ColumnMappings : SetColumnMapping(mapping)
    \/ \E method \in Methods, dry \in BOOLEAN : StartProcessAllRows(method, dry)
    \/ ProcessAllRowsRow
    \/ FinishProcessAllRows
    \/ \E rows \in PreviewCounts : CallPreviewData(rows)
    \/ \E method \in Methods, api_data \in ApiData, reply \in Replies :
          CallSendToApi(method, api_data, reply)
    \/ \E range \in IdRanges : StartDeleteProducts(range[1], range[2])
    \/ DeleteProduct
    \/ FinishDeleteProducts
    \/ Return

Spec == Init /\ [][Next]_vars

-----------------------------------------------------------------------------
(* Properties of process_excel_file, create_single_product and             *)
(* process_all_rows                                                        *)

InBatch == op = "process_excel_file" /\ pc \in {"loop", "returned"}

BatchDone == op = "process_excel_file" /\ pc = "returned"

\* the 1-based numbers of the rows process_excel_file has to consider
Considered == {r \in 1..Len(product_data) : r >= start_row}

FirstRow == IF start_row > 1 THEN start_row ELSE 1

\* whether mapping the row of the i-th result record raised
MappingRaised(i) == transform_log[i].outcome.raised

\* process_excel_file calls the transform once for each result record, and
\* in send mode every mapped row issues one request: the reply to the
\* request of the i-th result record
ExchangeOf(i) ==
    http_log[Cardinality({j \in 1..i : ~MappingRaised(j)})].response

Is2xx(response) == response.status_code >= 200 /\ response.status_code < 300

\* whether the reply has a body that is not JSON
UnparsedBody(response) == HasContent(response) /\ ~IsJson(response.text)

\* a record that reports a failure with its message
IsFailure(rec) ==
    /\ rec.status = "failed"
    /\ "error" \in DOMAIN rec
    /\ rec.error.t = "str"
    /\ rec.error.s # <<>>

\* C1: process_excel_file holds one result for each row number r with
\* start_row <= r <= N that the loop has passed and none for r < start_row,
\* in ascending row order, so that the returned list is as long as the
\* number of rows considered
C1_OneResultPerConsideredRow ==
    InBatch =>
        /\ Len(results) = Cardinality({r \in Considered : r <= index})
        /\ \A i \in DOMAIN results : results[i].row = FirstRow + i - 1
        /\ BatchDone => Len(results) = Cardinality(Considered)

\* three rows with start_row = 2 in send mode, one row failing: two results,
\* for rows 2 and 3
C1_Witness ==
    /\ BatchDone
    /\ Len(product_data) = 3
    /\ start_row = 2
    /\ ~dry_run
    /\ Len(results) = 2
    /\ results[1].row = 2 /\ results[1].status = "failed"
    /\ results[2].row = 3 /\ results[2].status = "success"

\* the exceptions of the rows recorded so far are all recorded as failures
FailuresRecorded ==
    /\ \A i \in DOMAIN results : MappingRaised(i) => IsFailure(results[i])
    /\ ~dry_run =>
          \A i \in DOMAIN results :
             (/\ ~MappingRaised(i)
              /\ \/ ExchangeOf(i) = NoReply
                 \/ RaisesForStatus(ExchangeOf(i))
                 \/ UnparsedBody(ExchangeOf(i)))
             => IsFailure(results[i])

\* C2: in process_excel_file an exception raised while mapping or sending a
\* row leaves a record with status 'failed' and the error message for that
\* row, every later row still gets its result, and the call ends by
\* returning (with its summary), never by raising
C2_RowFailureIsRecorded ==
    InBatch =>
        /\ FailuresRecorded
        /\ Len(results) = Cardinality({r \in Considered : r <= index})
        /\ BatchDone => (ret.status = "summary" /\ ret.total = Cardinality(Considered))

MappingFailedMidway ==
    /\ ~MappingRaised(1) /\ ExchangeOf(1) = NoReply
    /\ MappingRaised(2)
    /\ ~MappingRaised(3)

\* the first row met a connection failure, the mapping of the second row
\* raised, and the third row was still sent and succeeded
C2_Witness ==
    /\ BatchDone
    /\ ~dry_run
    /\ Len(results) = 3
    /\ MappingFailedMidway
    /\ results[1].status = "failed"
    /\ results[2].status = "failed"
    /\ results[3].status = "success"

\* every mapped row of a dry run is recorded 'dry_run' with its payload
DryRunRecorded ==
    /\ \A i \in DOMAIN results :
          ~MappingRaised(i) =>
             /\ results[i].status = "dry_run"
             /\ results[i].payload = transform_log[i].outcome.val

\* the result of create_single_product in a dry run
DryRunReturned ==
    ~MappingRaised(1) =>
        (ret.status = "dry_run" /\ ret.payload = transform_log[1].outcome.val)

\* C3: with dry_run = True process_excel_file, create_single_product and
\* process_all_rows issue no HTTP request, and every row whose mapping
\* succeeds is recorded with status 'dry_run' and the computed payload
C3_DryRunSendsNothing ==
    (dry_run /\ pc # "idle") =>
        /\ op \in {"process_excel_file", "create_single_product", "process_all_rows"}
              => http_log = <<>>
        /\ op = "process_excel_file" => DryRunRecorded
        /\ op = "create_single_product" => DryRunReturned
        /\ op = "process_all_rows" =>
              \A i \in DOMAIN results :
                 /\ results[i].status = "dry_run"
                 /\ results[i].data =
                       transform_row_to_api_format(column_mapping,
                                                   data.rows[results[i].row], <<>>, 1)

\* a dry run over three rows that all map: three 'dry_run' records, no request
C3_Witness ==
    /\ BatchDone
    /\ dry_run
    /\ Len(results) = 3
    /\ \A i \in DOMAIN results :
          results[i].status = "dry_run" /\ results[i].payload.productCode.s # <<>>
    /\ http_log = <<>>

SuccessIffTwoHundred ==
    /\ \A i \in DOMAIN results :
          ~MappingRaised(i) =>
             /\ results[i].status = "success"
                   <=> (ExchangeOf(i) # NoReply /\ Is2xx(ExchangeOf(i)))
             /\ results[i].status = "failed"
                   <=> (ExchangeOf(i) = NoReply \/ ~Is2xx(ExchangeOf(i)))

\* C4: in send mode a mapped row is recorded 'success' exactly when the call
\* got a 2xx response and 'failed' exactly when the response was not 2xx or
\* the connection failed, whatever the body
C4_SuccessIffTwoHundred ==
    (InBatch /\ ~dry_run) => SuccessIffTwoHundred

StatusAndBodyRecorded ==
    /\ \A i \in DOMAIN results :
          (/\ ~MappingRaised(i)
           /\ ExchangeOf(i) # NoReply
           /\ ~UnparsedBody(ExchangeOf(i))) =>
             /\ "response_status" \in DOMAIN results[i]
             /\ results[i].response_status = ExchangeOf(i).status_code
             /\ "response_body" \in DOMAIN results[i]
             /\ results[i].response_body = BodyOrNone(ExchangeOf(i))

\* C5: in send mode every row that got an HTTP response is recorded with the
\* status code and the body of that response, whether 'success' or 'failed'
\* (stated for the responses whose body is JSON or empty)
C5_StatusAndBodyRecorded ==
    (InBatch /\ ~dry_run) => StatusAndBodyRecorded

Statuses == {"success", "failed", "dry_run"}

\* the counts of the summary add up to the number of results
CountsAddUp ==
    BatchDone =>
        /\ ret.total = Len(results)
        /\ ret.success + ret.failed + ret.dry_run = ret.total

\* C6 as stated: every result record has a row number, a status out of
\* 'success', 'failed', 'dry_run' and a product code, also where mapping the
\* row raised, and the counts of the summary add up to the total
C6_EveryRecordHasProductCode ==
    InBatch =>
        /\ \A i \in DOMAIN results :
              /\ "row" \in DOMAIN results[i]
              /\ results[i].status \in Statuses
              /\ "product_code" \in DOMAIN results[i]
        /\ CountsAddUp

ProductCodeUnlessCatchAll ==
    /\ \A i \in DOMAIN results :
          /\ "row" \in DOMAIN results[i]
          /\ results[i].status \in Statuses
          /\ MappingRaised(i) => DOMAIN results[i] = {"row", "status", "error"}
          /\ (~MappingRaised(i) /\ (dry_run \/ ~UnparsedBody(ExchangeOf(i)))) =>
                /\ "product_code" \in DOMAIN results[i]
                /\ results[i].product_code.t = "str"
                /\ results[i].product_code.s # <<>>

\* C6, amended: every result record has a row number and a status out of
\* 'success', 'failed', 'dry_run'; it has a non-empty product code when the
\* row was mapped (and, in send mode, the reply had no unparsable body), and
\* none when mapping the row raised: that record holds only row, status and
\* error; the counts of the summary add up to the total
C6_ProductCodeUnlessCatchAll ==
    InBatch => (ProductCodeUnlessCatchAll /\ CountsAddUp)

\* a finished send run whose second record has no product code (its mapping
\* raised), whose first has one although the connection failed, and whose
\* third succeeded
C6_Witness ==
    /\ BatchDone
    /\ ~dry_run
    /\ Len(results) = 3
    /\ MappingFailedMidway
    /\ "product_code" \in DOMAIN results[1]
    /\ "product_code" \notin DOMAIN results[2]
    /\ results[3].status = "success"
    /\ ret.failed = 2 /\ ret.success = 1 /\ ret.total = 3

-----------------------------------------------------------------------------
(* Properties of transform_excel_row_to_api *)

TransformReturned == op = "transform_excel_row_to_api" /\ pc = "returned" /\ ~ret.raised

NullDates(entry) == entry.fromDate = None /\ entry.toDate = None /\ entry.id = None

\* C7: a payload that transform_excel_row_to_api returns has exactly one
\* productPriceDTOS entry and exactly one productVatDTOS entry, and fromDate,
\* toDate and id are null in both
C7_OnePriceOneVatEntry ==
    TransformReturned =>
        /\ Len(ret.val.productPriceDTOS) = 1
        /\ Len(ret.val.productVatDTOS) = 1
        /\ NullDates(ret.val.productPriceDTOS[1])
        /\ NullDates(ret.val.productVatDTOS[1])

\* the transform wrote a parsed price and a parsed VAT into the two entries
C7_Witness ==
    /\ TransformReturned
    /\ ret.val.productPriceDTOS[1].price = FloatV(125)
    /\ ret.val.productVatDTOS[1].price = FloatV(8 * FloatScale)

NonBlank(v) == notna(v) /\ v # StrV(<<>>)

\* the non-blank values of the SKUID-like and of the days-like columns
SkuidValues ==
    {PyStr(call_row[i].val) :
        i \in {j \in DOMAIN call_row :
                  IsSkuidColumn(call_row[j].col) /\ NonBlank(call_row[j].val)}}

DaysValues ==
    {PyStr(call_row[i].val) :
        i \in {j \in DOMAIN call_row :
                  IsDaysColumn(call_row[j].col) /\ NonBlank(call_row[j].val)}}

IsGeneratedCode(code) ==
    /\ Len(code) = 18
    /\ SubSeq(code, 1, 4) = Chars("SIM-")
    /\ \A i \in 5..18 : IsAsciiDigit(code[i])

\* C8: the product code is '<skuid>-<days>' when the row has a non-blank
\* value in a SKUID-like column and one in a days-like column, the SKUID
\* value when only that is present, and otherwise 'SIM-' followed by a
\* 14-digit timestamp; it is never empty
C8_ProductCodeThreeCases ==
    TransformReturned =>
        /\ ret.val.productCode.s # <<>>
        /\ IF SkuidValues # {} /\ DaysValues # {}
           THEN \E s \in SkuidValues, d \in DaysValues :
                   ret.val.productCode.s = s \o <<"-">> \o d
           ELSE IF SkuidValues # {}
           THEN ret.val.productCode.s \in SkuidValues
           ELSE IsGeneratedCode(ret.val.productCode.s)

HasColumn(bcss_field) ==
    /\ bcss_field \in DOMAIN mapping_data
    /\ notna(mapping_data[bcss_field].excel_mapping)
    /\ InIndex(call_row, mapping_data[bcss_field].excel_mapping)

SourceCell(bcss_field) == Cell(call_row, mapping_data[bcss_field].excel_mapping)

\* the amount the price / VAT entry has to hold
ExpectedAmount(bcss_field, default) ==
    IF HasColumn(bcss_field) /\ notna(SourceCell(bcss_field))
       /\ PyFloat(SourceCell(bcss_field)).ok
    THEN PyFloat(SourceCell(bcss_field)).val
    ELSE default

IsNumber(v) == v.t \in {"int", "float"}

SimpleFieldMapped(bcss_field, api_field) ==
    /\ ~(ret.raised /\ ret.at = bcss_field)
    /\ ~ret.raised =>
          IF /\ HasColumn(bcss_field)
             /\ ~_process_mapping_value(SourceCell(bcss_field),
                                        mapping_data[bcss_field].notes).raised
             /\ _process_mapping_value(SourceCell(bcss_field),
                                       mapping_data[bcss_field].notes).val # None
          THEN /\ api_field \in DOMAIN ret.val
               /\ ret.val[api_field] =
                     _process_mapping_value(SourceCell(bcss_field),
                                            mapping_data[bcss_field].notes).val
          ELSE IF api_field = "productName" THEN ret.val[api_field] = StrV(<<>>)
          ELSE api_field \notin DOMAIN ret.val

\* C10: productName and pckCode hold the normalised cell of their source
\* column when the mapping has the entry, the column is in the row and the
\* cell normalises to a non-null value; otherwise they keep the template
\* default (productName '', no pckCode key), and no error is raised
C10_SimpleFieldsMappedOrDefault ==
    (op = "transform_excel_row_to_api" /\ pc = "returned") =>
        /\ SimpleFieldMapped("Ten san pham", "productName")
        /\ SimpleFieldMapped("SKY package code", "pckCode")

-----------------------------------------------------------------------------
(* Properties of _process_mapping_value *)

NormaliserReturned == op = "_process_mapping_value" /\ pc = "returned"

\* a blank or placeholder raw value: absent, '' or the literal for "empty"
IsBlank(v) == isna(v) \/ v = StrV(<<>>) \/ v = StrV(Trong)

\* a text value that contains 'support' in any letter case
HasSupport(v) == v.t = "str" /\ Contains(Lower(v.s), Support)

\* a note that contains the phrase 'support = co' in any letter case
IsSupportNote(notes) == notes.t = "str" /\ Contains(Lower(notes.s), SupportEqCo)

One == StrV(<<"1">>)

Zero == StrV(<<"0">>)

\* C11: _process_mapping_value returns None for every blank or placeholder
\* value (NaN / None, '', the literal for "empty") whatever the note is, and
\* for every other value it returns a string and raises nothing
C11_BlankIsNullElseString ==
    NormaliserReturned =>
        /\ ~ret.raised
        /\ IsBlank(call_args.mapping_value) => ret.val = None
        /\ ~IsBlank(call_args.mapping_value) => ret.val.t = "str"

\* C12: for every text value that contains 'support' in any letter case
\* _process_mapping_value returns '1' whatever the note is, also when the
\* note holds 'support = co' or the value holds the "not required" phrase
C12_SupportIsOne ==
    (NormaliserReturned /\ HasSupport(call_args.mapping_value)) => ret = Returned(One)

\* a value with both the "not required" phrase and 'Support', under a note
\* with 'support = co', gave '1'
C12_Witness ==
    /\ NormaliserReturned
    /\ call_args.mapping_value = StrV(KhongBatBuoc \o Chars(" (no Support)"))
    /\ IsSupportNote(call_args.notes)
    /\ ret = Returned(One)

\* the value is the affirmative term, letter case and outer blanks aside
IsAffirmative(v) == v.t = "str" /\ Strip(Lower(v.s)) \in {Co, Yes}

\* C13: for every non-blank value without 'support', text or number, under a
\* note that contains 'support = co' _process_mapping_value returns '1' when
\* the value is the affirmative term and '0' otherwise, never another string
C13_YesNoUnderSupportNote ==
    (/\ NormaliserReturned
     /\ ~IsBlank(call_args.mapping_value)
     /\ ~HasSupport(call_args.mapping_value)
     /\ IsSupportNote(call_args.notes)) =>
        ret = Returned(IF IsAffirmative(call_args.mapping_value) THEN One ELSE Zero)

-----------------------------------------------------------------------------
(* Properties of the attribute list *)

\* the attribute slots that have an entry in the mapping, in the fixed order
ConfiguredSlots ==
    SelectSeq(_get_attribute_mapping, LAMBDA slot : slot[1] \in DOMAIN mapping_data)

\* C14: the attributeValueList of a returned payload has exactly one entry
\* for each attribute slot with an entry in the mapping and none for a slot
\* without one, in the order of the type ids 101..110 and without a repeated
\* type id; every entry has id None, productCategoryAttributeValueId '' and
\* a productCategoryAttributeId between 101 and 110
C14_OneEntryPerConfiguredSlot ==
    TransformReturned =>
        /\ Len(ret.val.attributeValueList) = Len(ConfiguredSlots)
        /\ \A i \in DOMAIN ret.val.attributeValueList :
              /\ ret.val.attributeValueList[i].productCategoryAttributeId
                    = ConfiguredSlots[i][2]
              /\ ret.val.attributeValueList[i].productCategoryAttributeId \in 101..110
              /\ ret.val.attributeValueList[i].id = None
              /\ ret.val.attributeValueList[i].productCategoryAttributeValueId = ""
              /\ \A j \in DOMAIN ret.val.attributeValueList :
                    i < j => ret.val.attributeValueList[i].productCategoryAttributeId
                                < ret.val.attributeValueList[j].productCategoryAttributeId

\* a mapping with entries for the slots 105, 106, 107 and 109 only gave a
\* list of these four entries
C14_Witness ==
    /\ TransformReturned
    /\ call_row # <<>>
    /\ [i \in DOMAIN ret.val.attributeValueList |->
           ret.val.attributeValueList[i].productCategoryAttributeId]
          = <<105, 106, 107, 109>>

Throttle == "Het toc do cao giam xuong"

\* the slot of the field has an entry in the mapping of a returned payload
SlotReturned(bcss_field) == TransformReturned /\ bcss_field \in DOMAIN mapping_data

\* the value of the returned entry with the given type id
SlotValue(id) ==
    ret.val.attributeValueList[
        CHOOSE i \in DOMAIN ret.val.attributeValueList :
            ret.val.attributeValueList[i].productCategoryAttributeId = id].attributeValue

\* the value the slot had before the post-processing
Resolved(bcss_field) == ResolveAttribute(mapping_data, call_row, bcss_field).val

\* the source column of the field is set and is a column of the row
ColumnInRow(bcss_field) ==
    /\ notna(mapping_data[bcss_field].excel_mapping)
    /\ InIndex(call_row, mapping_data[bcss_field].excel_mapping)

\* a purely numeric text: an unsigned integer or decimal literal
IsNumeric(v) == v.t = "str" /\ IsDecimal(v.s)

\* C15: in the throttle slot (104) a resolved value of the infinity sign or
\* '-1' gives the attribute value None, and every purely numeric resolved
\* value n, integer or decimal, gives the string '<n> Kbps'
C15_ThrottleSentinelOrKbps ==
    SlotReturned(Throttle) =>
        /\ Resolved(Throttle) \in {StrV(Infinity), StrV(Chars("-1"))}
              => SlotValue(104) = None
        /\ IsNumeric(Resolved(Throttle))
              => SlotValue(104) = StrV(Resolved(Throttle).s \o Kbps)

\* the text without its blanks, in lower case
Squeezed(s) == Lower(Replace(s, <<" ">>, <<>>))

\* the text ends with the unit, in any letter case
EndsWithUnit(s, unit) ==
    /\ Len(Squeezed(s)) > Len(unit)
    /\ SubSeq(Squeezed(s), Len(Squeezed(s)) - Len(unit) + 1, Len(Squeezed(s))) = unit

\* the text before the unit
BeforeUnit(s, unit) == SubSeq(Squeezed(s), 1, Len(Squeezed(s)) - Len(unit))

\* a number followed by the unit, with at most one blank in between
IsSpeed(v, unit) ==
    /\ v.t = "str"
    /\ EndsWithUnit(v.s, unit)
    /\ IsDecimal(BeforeUnit(v.s, unit))
    /\ Len(v.s) - Len(Squeezed(v.s)) <= 1

\* C16: in the throttle slot (104) every resolved value that is a number
\* followed by 'Mbps' or 'Kbps', in any letter case and with or without a
\* blank before the unit, becomes exactly '<n> Mbps' or '<n> Kbps', and
\* normalising the result again leaves it unchanged
C16_SpeedUnitNormalised ==
    SlotReturned(Throttle) =>
        /\ IsSpeed(Resolved(Throttle), Chars("mbps")) =>
              SlotValue(104) = StrV(BeforeUnit(Resolved(Throttle).s, Chars("mbps")) \o Mbps)
        /\ IsSpeed(Resolved(Throttle), Chars("kbps")) =>
              SlotValue(104) = StrV(BeforeUnit(Resolved(Throttle).s, Chars("kbps")) \o Kbps)
        /\ (IsSpeed(Resolved(Throttle), Chars("mbps"))
               \/ IsSpeed(Resolved(Throttle), Chars("kbps"))) =>
              PostProcess104(Throttle, SlotValue(104)) = Returned(SlotValue(104))

SimField == "Loai SIM"

\* the cell of the field's source column is the given word, letter case and
\* outer blanks aside
CellIs(bcss_field, word) ==
    /\ ColumnInRow(bcss_field)
    /\ SourceCell(bcss_field).t = "str"
    /\ Lower(Strip(SourceCell(bcss_field).s)) = word

\* C17: in the SIM-type slot (106) a cell equal to 'esim' in any letter case,
\* outer blanks ignored, gives '2', a cell equal to 'sim card' in any letter
\* case gives '1', and any other value is passed through unchanged
C17_SimTypeTranslated ==
    SlotReturned(SimField) =>
        /\ CellIs(SimField, Chars("esim")) => SlotValue(106) = StrV(<<"2">>)
        /\ CellIs(SimField, Chars("sim card")) => SlotValue(106) = StrV(<<"1">>)
        /\ (~CellIs(SimField, Chars("esim")) /\ ~CellIs(SimField, Chars("sim card")))
              => SlotValue(106) = Resolved(SimField)

\* the cell ' ESIM ' gave '2'
C17_Witness ==
    /\ SlotReturned(SimField)
    /\ ColumnInRow(SimField)
    /\ SourceCell(SimField) = StrV(Chars(" ESIM "))
    /\ SlotValue(106) = StrV(<<"2">>)

AreaField == "Pham vi phu song"

DaysField == "So ngay su dung"

IsIntOrNone(v) == v.t \in {"int", "none"}

\* int(float(v)) of a value that float() accepts and that is a number
Parses(v) == PyFloat(v).ok /\ PyFloat(v).val.t = "float"

Truncated(v) == PyIntOfFloat(PyFloat(v).val).val

\* the name of the coverage area: str of the cell
AreaName == PyStr(SourceCell(AreaField))

\* the coverage slot: the code of a name of the table, the integer of a name
\* that is a number, None for any other name or when the row has no cell
CoverageCoerced ==
    /\ IsIntOrNone(SlotValue(107))
    /\ (ColumnInRow(AreaField) /\ AreaName \in DOMAIN _get_national_area_mapping)
          => SlotValue(107) = IntV(_get_national_area_mapping[AreaName])
    /\ (/\ ColumnInRow(AreaField)
        /\ AreaName \notin DOMAIN _get_national_area_mapping
        /\ ~Parses(StrV(AreaName)))
          => SlotValue(107) = None
    /\ ~ColumnInRow(AreaField) => SlotValue(107) = None

\* the days slot: the integer of a resolved value that is a number, None for
\* an empty or unparseable one
DaysCoerced ==
    /\ IsIntOrNone(SlotValue(109))
    /\ Parses(Resolved(DaysField)) => SlotValue(109) = Truncated(Resolved(DaysField))
    /\ ~Parses(Resolved(DaysField)) => SlotValue(109) = None

HotspotField == "Chia se Wifi"

\* C19: whenever the hotspot slot (105) has an entry in the mapping, its
\* value is '1' if the cell of the configured source column contains
\* 'support' in any letter case and '0' in every other case: cell blank,
\* column not in the row, no source column configured
C19_HotspotIsOneOrZero ==
    SlotReturned(HotspotField) =>
        SlotValue(105) =
            IF /\ ColumnInRow(HotspotField)
               /\ Contains(Lower(PyStr(SourceCell(HotspotField))), Support)
            THEN One ELSE Zero

-----------------------------------------------------------------------------
(* Properties of send_to_api *)

SendReturned == op = "send_to_api" /\ pc = "returned"

\* the verb of the configuration is POST or PUT, in any letter case
IsSupported(method) == Upper(method) \in {Post, Put}

\* C20: send_to_api supports the verbs POST and PUT only, matched in any
\* letter case: for any other verb it raises ValueError and issues no
\* request; for POST / PUT it issues exactly one request, with the verb and
\* the data it was given, and it raises when the response status is not 2xx
C20_PostOrPutElseValueError ==
    SendReturned =>
        /\ ~IsSupported(api_method) =>
              (ret.raised /\ ret.exc = "ValueError" /\ http_log = <<>>)
        /\ IsSupported(api_method) =>
              /\ Len(http_log) = 1
              /\ http_log[1].method = Upper(api_method)
              /\ http_log[1].json = call_args.data
              /\ ~ret.raised => Is2xx(http_log[1].response)

-----------------------------------------------------------------------------
(* Properties of delete_products_by_id_range *)

InDelete == op = "delete_products_by_id_range" /\ pc \in {"loop", "returned"}

\* max(0, end_id - start_id + 1)
RangeSize ==
    IF call_args.end_id < call_args.start_id THEN 0
    ELSE call_args.end_id - call_args.start_id + 1

\* one DELETE and one outcome for each id passed, in ascending id order
OneDeletePerId ==
    /\ Len(results) = index
    /\ Len(http_log) = index
    /\ \A i \in 1..index :
          /\ results[i].product_id = call_args.start_id + i - 1
          /\ http_log[i].method = Delete
          /\ http_log[i].url = call_args.start_id + i - 1
    /\ pc = "returned" => index = RangeSize

\* C21: delete_products_by_id_range issues exactly one DELETE per id of the
\* inclusive range, in ascending id order, and returns one outcome per id
\* (max(0, end_id - start_id + 1) outcomes); a failure for one id never stops
\* the remaining ids, and the outcome of an id is 'success' exactly when its
\* DELETE returned a 2xx response
C21_OneDeletePerIdSuccessIff2xx ==
    InDelete =>
        /\ OneDeletePerId
        /\ \A i \in DOMAIN results :
              results[i].status = "success"
                 <=> (http_log[i].response # NoReply /\ Is2xx(http_log[i].response))

-----------------------------------------------------------------------------
(* Properties of ExcelAPITool.process_all_rows *)

\* process_all_rows is in its loop or has returned its result list
InToolBatch ==
    /\ op = "process_all_rows"
    /\ pc = "loop" \/ (pc = "returned" /\ ~("raised" \in DOMAIN ret))

\* one result per row passed, numbered 1..N in order
OneResultPerRow ==
    /\ Len(results) = index
    /\ \A i \in DOMAIN results : results[i].row = i
    /\ pc = "returned" => Len(results) = Len(data.rows)

\* a reply that send_to_api returns instead of raising
IsAccepted(response) == response # NoReply /\ ~RaisesForStatus(response)

\* every row is recorded on the outcome of its own request
RecordedOnOwnOutcome ==
    \A i \in DOMAIN results :
        /\ http_log[i].json = transform_row_to_api_format(column_mapping, data.rows[i], <<>>, 1)
        /\ results[i].status = "success" <=> IsAccepted(http_log[i].response)
        /\ results[i].status = "failed" <=> ~IsAccepted(http_log[i].response)
        /\ results[i].status = "failed" => IsFailure(results[i])

\* C22 as stated: process_all_rows returns one result per data row, numbered
\* 1..N in order; with dry_run = False it issues exactly one request per row,
\* a row whose request fails is recorded 'failed' with an error, and the
\* rows after it are still sent and recorded on their own outcome
C22_OneRequestPerRow ==
    InToolBatch =>
        /\ OneResultPerRow
        /\ ~dry_run => (Len(http_log) = index /\ RecordedOnOwnOutcome)

\* C22, amended: one result per data row, numbered 1..N in order; with
\* dry_run = False and the verb POST or PUT exactly one request per row, each
\* row recorded 'success' or 'failed' (with an error) on the outcome of its
\* own request; with any other verb no request at all and every row 'failed'
C22_OneRequestPerRowIfSupported ==
    InToolBatch =>
        /\ OneResultPerRow
        /\ (~dry_run /\ IsSupported(api_method)) =>
              (Len(http_log) = index /\ RecordedOnOwnOutcome)
        /\ (~dry_run /\ ~IsSupported(api_method)) =>
              /\ http_log = <<>>
              /\ \A i \in DOMAIN results : IsFailure(results[i])

\* three rows sent with POST, the second answered with HTTP 400: success,
\* failed, success
C22_Witness ==
    /\ InToolBatch
    /\ pc = "returned"
    /\ ~dry_run
    /\ Len(http_log) = 3
    /\ http_log[2].response.status_code = 400
    /\ [i \in DOMAIN results |-> results[i].status] = <<"success", "failed", "success">>

\* process_all_rows raised before its loop
RaisedAtStart ==
    /\ op = "process_all_rows"
    /\ pc = "returned"
    /\ "raised" \in DOMAIN ret

\* the error is a ValueError, and no row was transformed and no request issued
NothingDone ==
    /\ ret.exc = "ValueError"
    /\ index = 0
    /\ results = <<>>
    /\ http_log = <<>>

PreviewReturned == op = "preview_data" /\ pc = "returned"

\* preview_data raises ValueError exactly when no data is loaded
PreviewNeedsData ==
    PreviewReturned =>
        /\ ret.raised <=> ~data.loaded
        /\ ret.raised => ret.exc = "ValueError"

\* C23 as stated: process_all_rows raises ValueError when no data has been
\* loaded or no column mapping has been set, before any row is transformed
\* or any request issued, preview_data raises ValueError when no data has
\* been loaded, and once load_excel_data and set_column_mapping have been
\* called these errors no longer occur
C23_ErrorsUntilLoadedAndSet ==
    /\ (op = "process_all_rows" /\ pc # "idle") =>
          /\ RaisedAtStart <=> (~data.loaded \/ ~mapping_set)
          /\ RaisedAtStart => NothingDone
    /\ PreviewNeedsData

\* C23, amended: process_all_rows raises ValueError exactly when no data has
\* been loaded or the column mapping is empty (never set, or set to an empty
\* mapping), before any row is transformed or any request issued;
\* preview_data raises ValueError exactly when no data has been loaded
C23_ErrorsUntilLoadedAndMapped ==
    /\ (op = "process_all_rows" /\ pc # "idle") =>
          /\ RaisedAtStart <=> (~data.loaded \/ column_mapping = <<>>)
          /\ RaisedAtStart => NothingDone
    /\ PreviewNeedsData

\* data with rows is loaded and set_column_mapping was called with an empty
\* mapping: process_all_rows raised
C23_Witness ==
    /\ RaisedAtStart
    /\ data.loaded
    /\ data.rows # <<>>
    /\ mapping_set
    /\ column_mapping = <<>>
    /\ NothingDone

\* the i-th record of process_all_rows carries the transformed row
HasData(i) == "data" \in DOMAIN results[i]

\* the pairs of the column mapping whose spreadsheet column is in the row
PresentPairs(row) ==
    {j \in DOMAIN column_mapping : InIndex(row, StrV(column_mapping[j].excel_col))}

\* the pair that assigns its API field last
Decides(row, j) ==
    \A k \in PresentPairs(row) :
        column_mapping[k].api_field = column_mapping[j].api_field => k <= j

MappedCell(row, j) == Cell(row, StrV(column_mapping[j].excel_col))

\* C24: the record transform_row_to_api_format returns has as keys exactly the
\* API fields of the mapped columns that are in the row; the cell of such a
\* column is copied unchanged to its API field, a NaN cell as null, and a
\* mapped column that is not in the row gives no key and no error (where two
\* columns are mapped to one field, the copy made last is the one that stays)
C24_KeysOfPresentColumns ==
    (op = "process_all_rows" /\ pc # "idle") =>
        \A i \in DOMAIN results :
            HasData(i) =>
                /\ DOMAIN results[i].data =
                       {column_mapping[j].api_field : j \in PresentPairs(data.rows[i])}
                /\ \A j \in PresentPairs(data.rows[i]) :
                       Decides(data.rows[i], j) =>
                           results[i].data[column_mapping[j].api_field] =
                               IF MappedCell(data.rows[i], j).t \in {"nan", "none"}
                               THEN None
                               ELSE MappedCell(data.rows[i], j)

\* a row with a mapped column that is missing, one whose cell is NaN and one
\* whose cell has a value was transformed
C24_Witness ==
    /\ op = "process_all_rows"
    /\ pc # "idle"
    /\ \E i \in DOMAIN results :
          /\ HasData(i)
          /\ PresentPairs(data.rows[i]) # DOMAIN column_mapping
          /\ \E j \in PresentPairs(data.rows[i]) : MappedCell(data.rows[i], j).t = "nan"
          /\ \E j \in PresentPairs(data.rows[i]) : MappedCell(data.rows[i], j).t = "str"

SingleReturned == op = "create_single_product" /\ pc = "returned"

\* the outcome of the transform the call made
SingleMapping == transform_log[Len(transform_log)].outcome

\* send_to_api returned a response: the one request was answered, and not
\* with an error status
SendToApiReturned ==
    /\ Len(http_log) = 1
    /\ http_log[1].response # NoReply
    /\ ~RaisesForStatus(http_log[1].response)

\* C25: create_single_product never raises: an exception of the mapping or of
\* the sending is returned as a result with status 'failed' and an error
\* message; without dry_run the status is 'success', with the status code of
\* the response, only when send_to_api returned a response; and the call
\* issues at most one HTTP request
C25_SingleProductNeverRaises ==
    SingleReturned =>
        /\ "raised" \notin DOMAIN ret
        /\ ret.status \in {"dry_run", "success", "failed"}
        /\ ret.status = "failed" => IsFailure(ret)
        /\ SingleMapping.raised => ret.status = "failed" /\ http_log = <<>>
        /\ Len(http_log) <= 1
        /\ dry_run => http_log = <<>> /\ ret.status # "success"
        /\ (~dry_run /\ ~SingleMapping.raised /\ ~SendToApiReturned) => ret.status = "failed"
        /\ ret.status = "success" =>
              /\ ~dry_run
              /\ SendToApiReturned
              /\ ret.response_status = http_log[1].response.status_code

\* the mapping of the product raised, and the call returned a failure
C25_Witness == SingleReturned /\ SingleMapping.raised /\ IsFailure(ret)

\* the request was answered with an error status, and the call returned a
\* failure
C25_RequestRefused ==
    /\ SingleReturned
    /\ ~dry_run
    /\ Len(http_log) = 1
    /\ http_log[1].response # NoReply
    /\ RaisesForStatus(http_log[1].response)
    /\ IsFailure(ret)

\* the slots whose value is not post-processed
PlainSlots ==
    { <<"Loai goi", 102>>, <<"eKYC (Xac minh danh tinh)", 103>>, <<"SKUID", 108>>,
      <<"Nha cung cap", 110>> }

SourceColumn(bcss_field) == mapping_data[bcss_field].excel_mapping

\* the slot has a source column that is none of the three fixed names, its
\* note lacks the fixed-text marker, and the column is not in the row
ReachesFallback(bcss_field) ==
    /\ bcss_field \in DOMAIN mapping_data
    /\ notna(SourceColumn(bcss_field))
    /\ SourceColumn(bcss_field) \notin {StrV(KhongBatBuoc), StrV(SimOutbound), StrV(Cai)}
    /\ ~Contains(PyStr(mapping_data[bcss_field].notes), TextCoDinh)
    /\ ~InIndex(call_row, SourceColumn(bcss_field))

\* the name of the column contains the configured name or is contained in
\* it, letter case ignored
Matches(i, bcss_field) ==
    \/ Contains(Lower(call_row[i].col), Lower(PyStr(SourceColumn(bcss_field))))
    \/ Contains(Lower(PyStr(SourceColumn(bcss_field))), Lower(call_row[i].col))

FirstMatch(bcss_field) ==
    CHOOSE i \in DOMAIN call_row :
        /\ Matches(i, bcss_field)
        /\ \A j \in 1..(i - 1) : ~Matches(j, bcss_field)

\* the normalised cell, '' standing for a null
FromCell(cell, notes) ==
    IF _process_mapping_value(cell, notes).raised
       \/ _process_mapping_value(cell, notes).val = None
    THEN StrV(<<>>)
    ELSE _process_mapping_value(cell, notes).val

\* C26: when the configured source column of a slot is not a column of the
\* row, the value comes from the first column of the row, in row order, whose
\* name contains or is contained in the configured name (case-insensitive),
\* also when that cell is blank, and it is the empty string when no column
\* matches
C26_FirstSimilarColumnDecides ==
    (op = "transform_excel_row_to_api" /\ pc = "returned") =>
        \A slot \in PlainSlots :
            ReachesFallback(slot[1]) =>
                /\ ~(ret.raised /\ ret.at = slot[1])
                /\ ~ret.raised =>
                      SlotValue(slot[2]) =
                          IF \E i \in DOMAIN call_row : Matches(i, slot[1])
                          THEN FromCell(call_row[FirstMatch(slot[1])].val,
                                        mapping_data[slot[1]].notes)
                          ELSE StrV(<<>>)

\* without the exception: the payloads that are returned have the value of
\* the first similar column
C26_WhenReturned ==
    (op = "transform_excel_row_to_api" /\ pc = "returned" /\ ~ret.raised) =>
        \A slot \in PlainSlots :
            ReachesFallback(slot[1]) =>
                SlotValue(slot[2]) =
                    IF \E i \in DOMAIN call_row : Matches(i, slot[1])
                    THEN FromCell(call_row[FirstMatch(slot[1])].val,
                                  mapping_data[slot[1]].notes)
                    ELSE StrV(<<>>)

\* the first similar column is blank and a later one is not
C26_BlankFirstMatch ==
    /\ op = "transform_excel_row_to_api"
    /\ pc = "returned"
    /\ ~ret.raised
    /\ ReachesFallback("SKUID")
    /\ \E i \in DOMAIN call_row : Matches(i, "SKUID")
    /\ isna(call_row[FirstMatch("SKUID")].val)
    /\ \E j \in DOMAIN call_row :
          j > FirstMatch("SKUID") /\ Matches(j, "SKUID") /\ notna(call_row[j].val)
    /\ SlotValue(108) = StrV(<<>>)

\* rule (b): the source column is one of the three fixed names
IsFixedName(bcss_field) ==
    SourceColumn(bcss_field) \in {StrV(KhongBatBuoc), StrV(SimOutbound), StrV(Cai)}

\* rule (c): the note has the fixed-text marker
HasFixedTextNote(bcss_field) == Contains(PyStr(mapping_data[bcss_field].notes), TextCoDinh)

\* the cell of the source column is there and is not blank
NonBlankCell(bcss_field) ==
    /\ InIndex(call_row, SourceColumn(bcss_field))
    /\ notna(Cell(call_row, SourceColumn(bcss_field)))
    /\ Strip(PyStr(Cell(call_row, SourceColumn(bcss_field)))) # <<>>

\* the slot has an entry in the mapping, with a source column
Configured(bcss_field) ==
    /\ bcss_field \in DOMAIN mapping_data
    /\ notna(SourceColumn(bcss_field))

\* the value the first applicable rule gives, for the rules (b), (c) and (d)
ByFirstRule(bcss_field) ==
    IF SourceColumn(bcss_field) = StrV(KhongBatBuoc) THEN StrV(<<"0">>)
    ELSE IF IsFixedName(bcss_field) THEN SourceColumn(bcss_field)
    ELSE IF HasFixedTextNote(bcss_field) /\ NonBlankCell(bcss_field)
    THEN _process_mapping_value(Cell(call_row, SourceColumn(bcss_field)),
                                mapping_data[bcss_field].notes).val
    ELSE IF HasFixedTextNote(bcss_field) THEN SourceColumn(bcss_field)
    ELSE FromCell(Cell(call_row, SourceColumn(bcss_field)), mapping_data[bcss_field].notes)

\* C27: for the slots other than hotspot and coverage area the first
\* applicable rule decides, in the order (b) a source column equal to one of
\* the three fixed names gives '0' or the name itself whatever the row holds,
\* (c) a note with the fixed-text marker gives the normalised cell when the
\* column is in the row and not blank and else the source-column text,
\* (d) the cell of the source column, normalised, (e) the fuzzy fallback; the
\* rules (b) and (c) never raise
C27_FirstApplicableRuleDecides ==
    (op = "transform_excel_row_to_api" /\ pc = "returned") =>
        \A slot \in PlainSlots :
            Configured(slot[1]) =>
                /\ (IsFixedName(slot[1]) \/ HasFixedTextNote(slot[1]))
                      => ~(ret.raised /\ ret.at = slot[1])
                /\ (~ret.raised /\ ~ReachesFallback(slot[1]))
                      => SlotValue(slot[2]) = ByFirstRule(slot[1])
                /\ (~ret.raised /\ ReachesFallback(slot[1]))
                      => SlotValue(slot[2]) =
                             IF \E i \in DOMAIN call_row : Matches(i, slot[1])
                             THEN FromCell(call_row[FirstMatch(slot[1])].val,
                                           mapping_data[slot[1]].notes)
                             ELSE StrV(<<>>)

\* each earlier rule was seen to win over a later one that applies too: a
\* fixed name with the fixed-text note (b over c), a fixed name that is a
\* column of the row (b over d), the fixed-text note with a blank cell in the
\* row (c over d), the fixed-text note with a similar column (c over e)
C27_Witness ==
    /\ op = "transform_excel_row_to_api"
    /\ pc = "returned"
    /\ ~ret.raised
    /\ \A slot \in PlainSlots : Configured(slot[1])
    /\ IsFixedName("Loai goi") /\ HasFixedTextNote("Loai goi")
    /\ SlotValue(102) = StrV(SimOutbound)
    /\ IsFixedName("eKYC (Xac minh danh tinh)")
    /\ InIndex(call_row, SourceColumn("eKYC (Xac minh danh tinh)"))
    /\ SlotValue(103) = StrV(<<"0">>)
    /\ HasFixedTextNote("SKUID")
    /\ InIndex(call_row, SourceColumn("SKUID")) /\ ~NonBlankCell("SKUID")
    /\ SlotValue(108) = StrV(Chars("SKUID"))
    /\ HasFixedTextNote("Nha cung cap")
    /\ \E i \in DOMAIN call_row : Matches(i, "Nha cung cap")
    /\ SlotValue(110) = StrV(Chars("Tel"))

\* the row has a SKUID: a column with SKUID in its name, in any letter case,
\* whose cell is neither null nor the empty text
HasSkuid(row) ==
    \E i \in DOMAIN row :
        /\ Contains(Upper(row[i].col), Chars("SKUID"))
        /\ notna(row[i].val)
        /\ PyStr(row[i].val) # <<>>

\* the row the i-th call of the transform was given
LoggedRow(i) == product_data[transform_log[i].row]

\* equal rows with a SKUID have equal outcomes, wherever they stand in the
\* file and whatever the rows before them did
SameRowSamePayload ==
    InBatch =>
        \A i, j \in DOMAIN transform_log :
            (HasSkuid(LoggedRow(i)) /\ LoggedRow(i) = LoggedRow(j))
                => transform_log[i].outcome = transform_log[j].outcome

\* a pass of the loop leaves the mapping and the rows of the file as they
\* are, and keeps every outcome and every record made so far
RowFrame ==
    (InBatch /\ pc' # "idle") =>
        /\ mapping_data' = mapping_data
        /\ product_data' = product_data
        /\ Len(transform_log') >= Len(transform_log)
        /\ SubSeq(transform_log', 1, Len(transform_log)) = transform_log
        /\ Len(results') >= Len(results)
        /\ SubSeq(results', 1, Len(results)) = results

\* a direct call of the transform leaves the mapping as it is and returns
\* for the row it was given
CallFrame ==
    (pc = "idle" /\ pc' = "returned" /\ op' = "transform_excel_row_to_api") =>
        /\ mapping_data' = mapping_data
        /\ transform_log' = Append(transform_log, [row |-> 1, outcome |-> ret'])

InSendingBatch == op = "process_excel_file" /\ pc # "idle" /\ ~dry_run

\* the rows the loop has come to that are not skipped
ConsideredRows == {r \in 1..index : r >= start_row}

\* the calls of the transform that returned a payload, in the order made
MappedCalls == SelectSeq(transform_log, LAMBDA e : ~e.outcome.raised)

\* one call of the transform for each considered row, in ascending row order
OneCallPerConsideredRow ==
    /\ Len(transform_log) = Cardinality(ConsideredRows)
    /\ \A i \in DOMAIN transform_log : transform_log[i].row \in ConsideredRows
    /\ \A i, j \in DOMAIN transform_log : i < j => transform_log[i].row < transform_log[j].row

\* one request for each mapped row and no other, in the order of the rows
OneRequestPerMappedRow ==
    /\ Len(http_log) = Len(MappedCalls)
    /\ \A k \in DOMAIN http_log : http_log[k].json = MappedCalls[k].outcome.val

\* every row mapped so far has its record
AllRecorded ==
    /\ Len(results) = Len(transform_log)
    /\ \A i \in DOMAIN results : results[i].row = transform_log[i].row

\* a pass of the loop issues at most one request, after the requests of the
\* rows before, and leaves the row recorded before the next row is mapped
OneRowAtATime ==
    (InSendingBatch /\ pc' # "idle") =>
        /\ Len(http_log') <= Len(http_log) + 1
        /\ SubSeq(http_log', 1, Len(http_log)) = http_log
        /\ transform_log' # transform_log =>
              /\ Len(results) = Len(transform_log)
              /\ Len(results') = Len(transform_log')
              /\ Len(transform_log') = Len(transform_log) + 1

\* C29: process_excel_file with dry_run=False issues at most one request for
\* a considered row and none for a skipped row or a row whose mapping raised,
\* never sends a failed request again, issues the requests in ascending row
\* order, and has the outcome of row r recorded before row r+1 is mapped
C29_OneRequestPerRowInOrder ==
    /\ [](InSendingBatch => OneCallPerConsideredRow /\ OneRequestPerMappedRow /\ AllRecorded)
    /\ [][OneRowAtATime]_vars

\* the first row was skipped, the mapping of the second raised, and the
\* request of the third failed: one request in all
C29_Witness ==
    /\ InSendingBatch
    /\ start_row = 2
    /\ index = 3
    /\ Len(transform_log) = 2
    /\ transform_log[1].outcome.raised
    /\ ~transform_log[2].outcome.raised
    /\ Len(http_log) = 1
    /\ \/ http_log[1].response = NoReply
       \/ RaisesForStatus(http_log[1].response)
    /\ results[2].status = "failed"

\* other entries for the product code in the mapping: a column of the row
\* with a note, a column of the row with an empty note cell, no column
OtherCodeEntries ==
    { [excel_mapping |-> StrV(Chars("Product Name Short")), notes |-> NoteColumn],
      [excel_mapping |-> StrV(Chars("SKUID")), notes |-> NaN],
      [excel_mapping |-> NaN, notes |-> NaN] }

\* the mapping with the entry of the product code replaced
WithCodeEntry(md, entry) ==
    [f \in (DOMAIN md) \cup {"Ma san pham"} |-> IF f = "Ma san pham" THEN entry ELSE md[f]]

\* the outcome `other` of the same call under another entry is the same as
\* far as the product code goes
SameProductCode(other) ==
    /\ other.raised = ret.raised
    /\ ~ret.raised => other.val.productCode = ret.val.productCode

\* the two calls returned, and with the same product code
SameProductCodeIfReturned(other) ==
    (~other.raised /\ ~ret.raised) => other.val.productCode = ret.val.productCode

\* C30: the productCode of the payload comes from the scan of the SKUID and
\* days columns (or the timestamp) alone: two mappings that differ only in
\* the entry of the product code give the same productCode for every row
C30_ProductCodeIgnoresMapping ==
    (op = "transform_excel_row_to_api" /\ pc = "returned") =>
        \A entry \in OtherCodeEntries :
            SameProductCode(
                transform_excel_row_to_api(WithCodeEntry(mapping_data, entry), call_row,
                                           call_now))

\* the same for the calls that return under both mappings
C30_WhenReturned ==
    (op = "transform_excel_row_to_api" /\ pc = "returned") =>
        \A entry \in OtherCodeEntries :
            SameProductCodeIfReturned(
                transform_excel_row_to_api(WithCodeEntry(mapping_data, entry), call_row,
                                           call_now))

\* the entry of the mapping names a column of the row whose cell is a value,
\* and the payload has the code of the scan, not that value
C30_Overwritten ==
    /\ TransformReturned
    /\ "Ma san pham" \in DOMAIN mapping_data
    /\ HasColumn("Ma san pham")
    /\ SourceCell("Ma san pham").t = "str"
    /\ SourceCell("Ma san pham").s # <<>>
    /\ ret.val.productCode # SourceCell("Ma san pham")

====
